---- MODULE Spec2Model ----
(***************************************************************************)
(* Model of the LAVA accelerometer viewer (src/src/App.tsx and the earlier *)
(* single-metric variant): sample-rate inference, window segmentation,     *)
(* per-window metric records and the React state that holds them.          *)
(*                                                                         *)
(* JavaScript numbers are modelled as exact rationals extended with NaN    *)
(* and the two infinities; rounding error of binary floating point is not  *)
(* modelled.                                                               *)
(***************************************************************************)
EXTENDS Integers, Sequences, FiniteSets, TLC

VARIABLES
    arg,                \* argument record of the function under analysis
    ret,                \* value returned by the last call on arg
    metadata,           \* App state: CSVMetadata | null
    data,               \* App state: DataPoint[]
    metricData,         \* App state: MetricDataPoint[]
    windowSizeSeconds,  \* App state
    overlapPercent,     \* App state
    error,              \* App state
    actualSampleRate,   \* App state
    samplesPerMinute,   \* App state
    maxVisibleWindows,  \* App state
    scrollPosition,     \* App state
    snapToNow,          \* App state
    selectedMetrics,    \* App state: Set<MetricType>
    parseFileEnv,       \* values closed over by the memoized parseFile
    parses,             \* parseFile calls awaiting parser.parse(file)
    timers,             \* setTimeout callbacks not yet run
    last,               \* the handler or callback that ran last
    selectedFile,       \* the file of the latest handleFileUpload
    events              \* number of user events handled so far

fnVars == <<arg, ret>>
appVars == <<metadata, data, metricData, windowSizeSeconds, overlapPercent,
             error, actualSampleRate, samplesPerMinute, maxVisibleWindows,
             scrollPosition, snapToNow, selectedMetrics, parseFileEnv, parses,
             timers, last, selectedFile, events>>
vars == <<arg, ret, metadata, data, metricData, windowSizeSeconds,
          overlapPercent, error, actualSampleRate, samplesPerMinute,
          maxVisibleWindows, scrollPosition, snapToNow, selectedMetrics,
          parseFileEnv, parses, timers, last, selectedFile, events>>

-----------------------------------------------------------------------------
(* Bounds *)

\* longest series handed to calculateActualSampleRate on its own
MaxSamples == 3

\* longest series handed to calculateMetrics and calculateRMS on their own
MaxSeriesLen == 5

\* longest window handed to a metric function on its own
MaxWindowLen == 11

\* user events (file selections, setting changes, clicks) in one behaviour
MaxEvents == 3

\* the row limit of the parsers (20000 in the source)
MaxRows == 2

\* largest chunk size of parseCSVFromBuffer, in characters (64 * 1024 in the
\* source)
MaxChunk == 3

-----------------------------------------------------------------------------
(* JavaScript numbers: [k |-> "fin", n, d] is the rational n/d in lowest   *)
(* terms with d > 0; "nan" is NaN; "inf" carries its sign in n.            *)

RECURSIVE GCD(_, _)
GCD(a, b) == IF b = 0 THEN a ELSE GCD(b, a % b)

Abs(x) == IF x < 0 THEN -x ELSE x

Q(n, d) ==
    LET s == IF d < 0 THEN -1 ELSE 1
        g == GCD(Abs(n), Abs(d))
    IN  [k |-> "fin", n |-> (s * n) \div g, d |-> (s * d) \div g]

NaN == [k |-> "nan", n |-> 0, d |-> 1]
PosInf == [k |-> "inf", n |-> 1, d |-> 1]
NegInf == [k |-> "inf", n |-> -1, d |-> 1]
Zero == Q(0, 1)
One == Q(1, 1)

isNaN(x) == x.k = "nan"
IsFinite(x) == x.k = "fin"
Sgn(x) == IF x.n > 0 THEN 1 ELSE IF x.n < 0 THEN -1 ELSE 0
InfOf(s) == IF s > 0 THEN PosInf ELSE NegInf
Neg(x) == [x EXCEPT !.n = -x.n]

\* a - b
Sub(a, b) ==
    IF isNaN(a) \/ isNaN(b) THEN NaN
    ELSE IF a.k = "inf" THEN (IF b.k = "inf" /\ b.n = a.n THEN NaN ELSE a)
    ELSE IF b.k = "inf" THEN Neg(b)
    ELSE LET g == GCD(a.d, b.d)
         IN  Q(a.n * (b.d \div g) - b.n * (a.d \div g), (a.d \div g) * b.d)

\* a + b
Add(a, b) == Sub(a, Neg(b))

\* a * b
Mul(a, b) ==
    IF isNaN(a) \/ isNaN(b) THEN NaN
    ELSE IF a.k = "inf" \/ b.k = "inf"
         THEN (IF Sgn(a) * Sgn(b) = 0 THEN NaN ELSE InfOf(Sgn(a) * Sgn(b)))
    ELSE LET g == GCD(Abs(a.n), b.d)
             h == GCD(Abs(b.n), a.d)
         IN  Q((a.n \div g) * (b.n \div h), (a.d \div h) * (b.d \div g))

\* a / b
Div(a, b) ==
    IF isNaN(a) \/ isNaN(b) THEN NaN
    ELSE IF a.k = "inf" THEN (IF b.k = "inf" THEN NaN
                              ELSE InfOf(a.n * (IF b.n < 0 THEN -1 ELSE 1)))
    ELSE IF b.k = "inf" THEN Zero
    ELSE IF b.n = 0 THEN (IF a.n = 0 THEN NaN ELSE InfOf(a.n))
    ELSE Q(a.n * b.d, a.d * b.n)

\* a > b, a < b, a <= b, a >= b: false when either side is NaN
Gt(a, b) ==
    LET df == Sub(a, b)
    IN  IF isNaN(a) \/ isNaN(b) THEN FALSE
        ELSE IF isNaN(df) THEN FALSE
        ELSE df.n > 0
Lt(a, b) == Gt(b, a)
Le(a, b) == ~isNaN(a) /\ ~isNaN(b) /\ ~Gt(a, b)
Ge(a, b) == Le(b, a)

\* Math.floor, Math.round, Math.max, Math.min
MathFloor(x) == IF IsFinite(x) THEN Q(x.n \div x.d, 1) ELSE x
MathRound(x) == IF IsFinite(x) THEN Q((2 * x.n + x.d) \div (2 * x.d), 1) ELSE x
MathMax(a, b) == IF isNaN(a) \/ isNaN(b) THEN NaN ELSE IF Gt(b, a) THEN b ELSE a
MathMin(a, b) == IF isNaN(a) \/ isNaN(b) THEN NaN ELSE IF Lt(b, a) THEN b ELSE a

-----------------------------------------------------------------------------
(* Sample series *)

\* DataPoint of parsers/types.ts
DataPoint(t, x, y, z) == [time |-> t, ax |-> x, ay |-> y, az |-> z]

-----------------------------------------------------------------------------
(* calculateActualSampleRate *)

\* dataPoints.map(point => ({...point, time: point.time - firstPoint.time}))
NormalizeTimes_FromSecond(dataPoints) ==
    [i \in 1..Len(dataPoints) |->
        [dataPoints[i] EXCEPT !.time = Sub(@, dataPoints[2].time)]]

NormalizeTimes(dataPoints) ==
    [i \in 1..Len(dataPoints) |->
        [dataPoints[i] EXCEPT !.time = Sub(@, dataPoints[1].time)]]

\* timeRangeSeconds > 0 ? (dataPoints.length - 1) / timeRangeSeconds : 0
RateOfRange_IntervalsOffByOne(n, timeRangeSeconds) ==
    IF Gt(timeRangeSeconds, Zero) THEN Div(Q(n, 1), timeRangeSeconds) ELSE Zero

RateOfRange_NoRangeGuard(n, timeRangeSeconds) ==
    Div(Q(n - 1, 1), timeRangeSeconds)

RateOfRange(n, timeRangeSeconds) ==
    IF Gt(timeRangeSeconds, Zero) THEN Div(Q(n - 1, 1), timeRangeSeconds) ELSE Zero

calculateActualSampleRate(dataPoints) ==
    IF Len(dataPoints) < 2
    THEN [actualSampleRate |-> Zero, normalizedData |-> dataPoints]
    ELSE
      LET firstPoint == dataPoints[1]
          lastPoint == dataPoints[Len(dataPoints)]
          timeRangeSeconds == Sub(lastPoint.time, firstPoint.time)
      IN  IF isNaN(firstPoint.time) \/ isNaN(lastPoint.time)
          THEN [actualSampleRate |-> Zero, normalizedData |-> dataPoints]
          ELSE [actualSampleRate |-> RateOfRange(Len(dataPoints), timeRangeSeconds),
                normalizedData |-> NormalizeTimes(dataPoints)]

\* the keys of minuteMap in ascending order
RECURSIVE SortMinutes(_)
SortMinutes(S) ==
    IF S = {} THEN <<>>
    ELSE LET m == CHOOSE x \in S : \A y \in S : ~Lt(y, x)
         IN  <<m>> \o SortMinutes(S \ {m})

analyzeSamplesPerMinute(dataPoints) ==
    LET minuteOf(i) == MathFloor(Div(dataPoints[i].time, Q(60, 1)))
        minutes == SortMinutes({minuteOf(i) : i \in 1..Len(dataPoints)})
    IN  [k \in 1..Len(minutes) |->
            [minute |-> minutes[k],
             count |-> Cardinality({i \in 1..Len(dataPoints) :
                                       minuteOf(i) = minutes[k]}),
             startSeconds |-> Mul(minutes[k], Q(60, 1)),
             endSeconds |-> Mul(Add(minutes[k], One), Q(60, 1))]]

\* calculateSampleRate of App.test.tsx
calculateSampleRate(times) ==
    IF Len(times) < 2 THEN Zero
    ELSE LET timeRangeSeconds == Sub(times[Len(times)], times[1])
         IN  IF Le(timeRangeSeconds, Zero) THEN Zero
             ELSE Div(Q(Len(times) - 1, 1), timeRangeSeconds)

-----------------------------------------------------------------------------
(* Metric types and the per-window metric functions *)

AxisMetrics == {"rms_x", "rms_y", "rms_z"}
BandMetrics == {"band_0_1", "band_1_5", "band_5_10", "band_10_20",
                "band_20_30", "band_30_40", "band_40_50", "band_50_60",
                "band_60_70", "band_70_80", "band_80_90", "band_90_100"}
MetricType == AxisMetrics \cup {"rms_total", "percentile_90"} \cup BandMetrics

\* (minFreq, maxFreq) passed by calculateMetrics for each band metric
BandRange(m) ==
    CASE m = "band_0_1"    -> <<0, 1>>
      [] m = "band_1_5"    -> <<1, 5>>
      [] m = "band_5_10"   -> <<5, 10>>
      [] m = "band_10_20"  -> <<10, 20>>
      [] m = "band_20_30"  -> <<20, 30>>
      [] m = "band_30_40"  -> <<30, 40>>
      [] m = "band_40_50"  -> <<40, 50>>
      [] m = "band_50_60"  -> <<50, 60>>
      [] m = "band_60_70"  -> <<60, 70>>
      [] m = "band_70_80"  -> <<70, 80>>
      [] m = "band_80_90"  -> <<80, 90>>
      [] m = "band_90_100" -> <<90, 100>>

RECURSIVE SumSeq(_)
SumSeq(s) == IF Len(s) = 0 THEN Zero ELSE Add(s[1], SumSeq(Tail(s)))

\* A metric value Math.sqrt(v) is held as [kind |-> "sqrt", v |-> v].  A band
\* value is held as the bins summed and their count (kind "band"): it is the
\* number 0 when count = 0 and sqrt(sumPower / count) over those bins of the
\* transform of size fftSize otherwise.
SqrtOf(v) == [kind |-> "sqrt", v |-> v]
BandValue(fftSize, bins) ==
    [kind |-> "band", fftSize |-> fftSize, bins |-> bins, count |-> Cardinality(bins)]

AxisOf(point, axis) ==
    CASE axis = "ax" -> point.ax [] axis = "ay" -> point.ay [] axis = "az" -> point.az

calculateAxisRMS_NoMean(window, axis) ==
    LET sumSquares ==
            SumSeq([i \in 1..Len(window) |->
                      Mul(AxisOf(window[i], axis), AxisOf(window[i], axis))])
    IN  SqrtOf(sumSquares)

calculateAxisRMS(window, axis) ==
    LET sumSquares ==
            SumSeq([i \in 1..Len(window) |->
                      Mul(AxisOf(window[i], axis), AxisOf(window[i], axis))])
    IN  SqrtOf(Div(sumSquares, Q(Len(window), 1)))

\* square of calculateTotalAcceleration(point)
TotalSquared_TwoAxes(point) ==
    Add(Mul(point.ax, point.ax), Mul(point.ay, point.ay))

TotalSquared(point) ==
    Add(Add(Mul(point.ax, point.ax), Mul(point.ay, point.ay)),
        Mul(point.az, point.az))

\* rms_total branch of calculateMetrics
TotalRMS(window) ==
    LET sumSquares == SumSeq([i \in 1..Len(window) |-> TotalSquared(window[i])])
    IN  SqrtOf(Div(sumSquares, Q(Len(window), 1)))

\* Array.prototype.sort((a, b) => a - b) on a sequence of numbers
RECURSIVE SortAscending(_)
SortAscending(s) ==
    IF Len(s) = 0 THEN <<>>
    ELSE LET m == CHOOSE i \in 1..Len(s) :
                     /\ \A j \in 1..Len(s) : ~Lt(s[j], s[i])
                     /\ \A j \in 1..(i - 1) : Lt(s[i], s[j])
             rest == [j \in 1..(Len(s) - 1) |-> IF j < m THEN s[j] ELSE s[j + 1]]
         IN  <<s[m]>> \o SortAscending(rest)

calculate90thPercentile_Maximum(window) ==
    LET totals == SortAscending([i \in 1..Len(window) |-> TotalSquared(window[i])])
    IN  SqrtOf(totals[Len(totals)])

calculate90thPercentile(window) ==
    LET totals == SortAscending([i \in 1..Len(window) |-> TotalSquared(window[i])])
        index == MathFloor(Mul(Q(Len(totals), 1), Q(9, 10))).n
    IN  SqrtOf(totals[index + 1])

\* smallest e with 2^e >= m: Math.ceil(Math.log2(m))
RECURSIVE CeilLog2(_)
CeilLog2(m) == IF m <= 1 THEN 0 ELSE 1 + CeilLog2((m + 1) \div 2)

RECURSIVE Pow2(_)
Pow2(e) == IF e = 0 THEN 1 ELSE 2 * Pow2(e - 1)

\* fftSize = Math.pow(2, Math.ceil(Math.log2(signal.length)))
FftSize(m) == Pow2(CeilLog2(m))

\* new FFT(size) of fft.js rejects a size that is not a power of two > 1
FFTThrows(size) == size <= 1

\* bins i in [0, fftSize/2) with minFreq <= i * sampleRate / fftSize < maxFreq
BandBins(fftSize, sampleRate, minFreq, maxFreq) ==
    {i \in 0..(fftSize - 1) :
        /\ 2 * i < fftSize
        /\ Ge(Mul(Q(i, 1), Div(sampleRate, Q(fftSize, 1))), Q(minFreq, 1))
        /\ Lt(Mul(Q(i, 1), Div(sampleRate, Q(fftSize, 1))), Q(maxFreq, 1))}

\* the value calculateFrequencyBandRMS returns when new FFT(fftSize) succeeds
calculateFrequencyBandRMS(window, sampleRate, minFreq, maxFreq) ==
    IF Len(window) = 0 \/ sampleRate = Zero
    THEN BandValue(0, {})
    ELSE BandValue(FftSize(Len(window)),
                   BandBins(FftSize(Len(window)), sampleRate, minFreq, maxFreq))

\* does computing metric m on this window throw
MetricThrows(m, window, sampleRate) ==
    /\ m \in BandMetrics
    /\ Len(window) # 0
    /\ sampleRate # Zero
    /\ FFTThrows(FftSize(Len(window)))

\* the value calculateMetrics stores under key m
MetricValue(m, window, sampleRate) ==
    CASE m = "rms_x" -> calculateAxisRMS(window, "ax")
      [] m = "rms_y" -> calculateAxisRMS(window, "ay")
      [] m = "rms_z" -> calculateAxisRMS(window, "az")
      [] m = "rms_total" -> TotalRMS(window)
      [] m = "percentile_90" -> calculate90thPercentile(window)
      [] OTHER -> calculateFrequencyBandRMS(window, sampleRate,
                                            BandRange(m)[1], BandRange(m)[2])

-----------------------------------------------------------------------------
(* Window segmentation and calculateMetrics *)

\* ToIntegerOrInfinity followed by the clamping of Array.prototype.slice
SliceIndex(x, len) ==
    IF isNaN(x) THEN 0
    ELSE IF x.k = "inf" THEN (IF x.n > 0 THEN len ELSE 0)
    ELSE LET t == IF x.n >= 0 THEN x.n \div x.d ELSE -((-x.n) \div x.d)
         IN  IF t < 0 THEN (IF len + t < 0 THEN 0 ELSE len + t)
             ELSE IF t > len THEN len ELSE t

\* dataPoints.slice(start, end), indices counted from 0
Slice(s, lo, hi) == IF hi <= lo THEN <<>> ELSE SubSeq(s, lo + 1, hi)

windowSizeSamplesOf(windowSeconds, sampleRate) ==
    MathMax(One, MathRound(Mul(windowSeconds, sampleRate)))

overlapSamplesOf_RoundUp(windowSizeSamples, overlapPct) ==
    Neg(MathFloor(Neg(Mul(windowSizeSamples, Div(overlapPct, Q(100, 1))))))

overlapSamplesOf(windowSizeSamples, overlapPct) ==
    MathFloor(Mul(windowSizeSamples, Div(overlapPct, Q(100, 1))))

stepSizeOf_HalfStep(windowSizeSamples, overlapSamples) ==
    MathMax(Q(1, 2), Sub(windowSizeSamples, overlapSamples))

stepSizeOf(windowSizeSamples, overlapSamples) ==
    MathMax(One, Sub(windowSizeSamples, overlapSamples))

\* the for loop of calculateMetrics from index i on: the index ranges
\* <<i, windowEnd>> of the windows it slices, in order
RECURSIVE WindowLoop_EndInclusive(_, _, _, _)
WindowLoop_EndInclusive(n, i, windowSizeSamples, stepSize) ==
    IF ~Lt(i, Q(n, 1)) THEN <<>>
    ELSE LET windowEnd == MathMin(Add(Add(i, windowSizeSamples), One), Q(n, 1))
             lo == SliceIndex(i, n)
             hi == SliceIndex(windowEnd, n)
         IN  IF hi <= lo THEN <<>>
             ELSE <<<<lo, hi>>>> \o
                  WindowLoop_EndInclusive(n, Add(i, stepSize), windowSizeSamples, stepSize)

RECURSIVE WindowLoop(_, _, _, _)
WindowLoop(n, i, windowSizeSamples, stepSize) ==
    IF ~Lt(i, Q(n, 1)) THEN <<>>
    ELSE LET windowEnd == MathMin(Add(i, windowSizeSamples), Q(n, 1))
             lo == SliceIndex(i, n)
             hi == SliceIndex(windowEnd, n)
         IN  IF hi <= lo THEN <<>>
             ELSE <<<<lo, hi>>>> \o
                  WindowLoop(n, Add(i, stepSize), windowSizeSamples, stepSize)

\* new Date(value): TimeClip truncates to whole milliseconds; a non-finite
\* value gives an invalid date
NewDate(tv) ==
    IF ~IsFinite(tv) THEN NaN
    ELSE Q(IF tv.n >= 0 THEN tv.n \div tv.d ELSE -((-tv.n) \div tv.d), 1)

\* the record pushed for one window
MetricPoint_FirstSampleTime(dataPoints, range, sampleRate, startTime, selMetrics) ==
    LET window == Slice(dataPoints, range[1], range[2])
        maxTimeInWindow == window[1].time
    IN  [time |-> maxTimeInWindow,
         absoluteTime |-> NewDate(Add(startTime, Mul(maxTimeInWindow, Q(1000, 1)))),
         values |-> [m \in selMetrics |-> MetricValue(m, window, sampleRate)]]

MetricPoint(dataPoints, range, sampleRate, startTime, selMetrics) ==
    LET window == Slice(dataPoints, range[1], range[2])
        maxTimeInWindow == window[Len(window)].time
    IN  [time |-> maxTimeInWindow,
         absoluteTime |-> NewDate(Add(startTime, Mul(maxTimeInWindow, Q(1000, 1)))),
         values |-> [m \in selMetrics |-> MetricValue(m, window, sampleRate)]]

\* calculateMetrics with the selectedMetrics its closure holds.  status is
\* "return" for the early return, "throw" when a metric computation throws
\* before setMetricData, "set" when setMetricData(results) is reached;
\* windows are the index ranges of the records in results.
calculateMetrics(dataPoints, windowSeconds, overlapPct, sampleRate, startTime, selMetrics) ==
    IF Len(dataPoints) = 0 \/ sampleRate = Zero
    THEN [status |-> "return", windows |-> <<>>, results |-> <<>>]
    ELSE
      LET windowSizeSamples == windowSizeSamplesOf(windowSeconds, sampleRate)
          overlapSamples == overlapSamplesOf(windowSizeSamples, overlapPct)
          stepSize == stepSizeOf(windowSizeSamples, overlapSamples)
          ranges == WindowLoop(Len(dataPoints), Zero, windowSizeSamples, stepSize)
      IN  IF \E k \in 1..Len(ranges) : \E m \in selMetrics :
                 MetricThrows(m, Slice(dataPoints, ranges[k][1], ranges[k][2]),
                              sampleRate)
          THEN [status |-> "throw", windows |-> <<>>, results |-> <<>>]
          ELSE [status |-> "set", windows |-> ranges,
                results |-> [k \in 1..Len(ranges) |->
                               MetricPoint(dataPoints, ranges[k], sampleRate,
                                           startTime, selMetrics)]]

\* calculateRMS of the earlier single-metric variant: non-overlapping windows,
\* az RMS, window centre time.  It has no guard for sampleRate 0 and no break
\* on an empty window: with a NaN window size the centre index is NaN and
\* reading dataPoints[NaN].time throws.
calculateRMS(dataPoints, windowSeconds, sampleRate) ==
    IF Len(dataPoints) = 0
    THEN [status |-> "return", windows |-> <<>>, results |-> <<>>]
    ELSE
      LET windowSizeSamples == windowSizeSamplesOf(windowSeconds, sampleRate)
          ranges == WindowLoop(Len(dataPoints), Zero, windowSizeSamples,
                               windowSizeSamples)
      IN  IF isNaN(windowSizeSamples)
          THEN [status |-> "throw", windows |-> <<>>, results |-> <<>>]
          ELSE
          [status |-> "set", windows |-> ranges,
           results |-> [k \in 1..Len(ranges) |->
               [time |-> dataPoints[((ranges[k][1] + ranges[k][2]) \div 2) + 1].time,
                rms |-> calculateAxisRMS(
                            Slice(dataPoints, ranges[k][1], ranges[k][2]), "az")]]]

-----------------------------------------------------------------------------
(* Arrays and aliasing.  A heap is a sequence of arrays and a reference is *)
(* an index into it: map, slice and new Array append a new array, while an *)
(* in-place method (sort) replaces the array at its reference.  The        *)
(* operators below give the heap after a call, for the array operations    *)
(* the function performs in the order it performs them.                    *)

ArrayNew(heap, arr) == Append(heap, arr)
ArraySortInPlace(heap, ref) == [heap EXCEPT ![ref] = SortAscending(@)]

\* window.map(calculateTotalAcceleration), held as squares
TotalsOf(window) == [i \in 1..Len(window) |-> TotalSquared(window[i])]

\* dataPoints.map(point => ({...point, time: ...})): a new array of new objects
calculateActualSampleRateHeap_InPlace(heap, dataPoints) ==
    LET dp == heap[dataPoints]
    IN  IF Len(dp) < 2 THEN heap
        ELSE IF isNaN(dp[1].time) \/ isNaN(dp[Len(dp)].time) THEN heap
        ELSE [heap EXCEPT ![dataPoints] = NormalizeTimes(dp)]

calculateActualSampleRateHeap(heap, dataPoints) ==
    LET dp == heap[dataPoints]
    IN  IF Len(dp) < 2 THEN heap
        ELSE IF isNaN(dp[1].time) \/ isNaN(dp[Len(dp)].time) THEN heap
        ELSE ArrayNew(heap, NormalizeTimes(dp))

\* totals = window.map(...).sort(...): the sort is applied to the mapped array
calculate90thPercentileHeap(heap, window) ==
    LET mapped == ArrayNew(heap, TotalsOf(heap[window]))
    IN  ArraySortInPlace(mapped, Len(mapped))

\* signal = window.map(...); paddedSignal = new Array(fftSize).fill(0), then
\* paddedSignal[i] = signal[i]
calculateFrequencyBandRMSHeap(heap, window, sampleRate) ==
    IF Len(heap[window]) = 0 \/ sampleRate = Zero THEN heap
    ELSE LET signal == TotalsOf(heap[window])
             fftSize == FftSize(Len(signal))
             withSignal == ArrayNew(heap, signal)
         IN  IF FFTThrows(fftSize) THEN withSignal
             ELSE ArrayNew(withSignal,
                           [i \in 1..fftSize |->
                               IF i <= Len(signal) THEN signal[i] ELSE Zero])

\* the order in which calculateMetrics tests selectedMetrics
MetricOrder == <<"rms_x", "rms_y", "rms_z", "rms_total", "percentile_90",
                 "band_0_1", "band_1_5", "band_5_10", "band_10_20",
                 "band_20_30", "band_30_40", "band_40_50", "band_50_60",
                 "band_60_70", "band_70_80", "band_80_90", "band_90_100">>

\* heap after computing metric m on the window
MetricHeap(heap, window, m, sampleRate) ==
    IF m \in AxisMetrics THEN heap
    ELSE IF m = "rms_total" THEN ArrayNew(heap, TotalsOf(heap[window]))
    ELSE IF m = "percentile_90" THEN calculate90thPercentileHeap(heap, window)
    ELSE calculateFrequencyBandRMSHeap(heap, window, sampleRate)

\* metrics j, j + 1, ... of MetricOrder on one window, up to a throw
RECURSIVE MetricsHeap(_, _, _, _, _)
MetricsHeap(heap, window, selMetrics, sampleRate, j) ==
    IF j > Len(MetricOrder) THEN [heap |-> heap, thrown |-> FALSE]
    ELSE IF MetricOrder[j] \notin selMetrics
    THEN MetricsHeap(heap, window, selMetrics, sampleRate, j + 1)
    ELSE LET after == MetricHeap(heap, window, MetricOrder[j], sampleRate)
         IN  IF MetricThrows(MetricOrder[j], heap[window], sampleRate)
             THEN [heap |-> after, thrown |-> TRUE]
             ELSE MetricsHeap(after, window, selMetrics, sampleRate, j + 1)

\* windows k, k + 1, ... of the loop: window = dataPoints.slice(i, windowEnd)
\* is a new array; refs are the references of the windows sliced so far
RECURSIVE WindowsHeap(_, _, _, _, _, _, _)
WindowsHeap(heap, dataPoints, ranges, k, selMetrics, sampleRate, refs) ==
    IF k > Len(ranges) THEN [heap |-> heap, windows |-> refs]
    ELSE LET sliced == ArrayNew(heap, Slice(heap[dataPoints], ranges[k][1],
                                            ranges[k][2]))
             window == Len(sliced)
             after == MetricsHeap(sliced, window, selMetrics, sampleRate, 1)
         IN  IF after.thrown
             THEN [heap |-> after.heap, windows |-> Append(refs, window)]
             ELSE WindowsHeap(after.heap, dataPoints, ranges, k + 1, selMetrics,
                              sampleRate, Append(refs, window))

\* heap after calculateMetrics, with the references of the windows it sliced
calculateMetricsHeap(heap, dataPoints, windowSeconds, overlapPct, sampleRate, selMetrics) ==
    IF Len(heap[dataPoints]) = 0 \/ sampleRate = Zero
    THEN [heap |-> heap, windows |-> <<>>]
    ELSE
      LET windowSizeSamples == windowSizeSamplesOf(windowSeconds, sampleRate)
          overlapSamples == overlapSamplesOf(windowSizeSamples, overlapPct)
          stepSize == stepSizeOf(windowSizeSamples, overlapSamples)
          ranges == WindowLoop(Len(heap[dataPoints]), Zero, windowSizeSamples,
                               stepSize)
      IN  WindowsHeap(heap, dataPoints, ranges, 1, selMetrics, sampleRate, <<>>)

-----------------------------------------------------------------------------
(* Initial React state of App *)

NoMetadata == [null |-> TRUE, startTime |-> NaN]
Metadata(startTime) == [null |-> FALSE, startTime |-> startTime]

DefaultMetrics == {"rms_z", "rms_total"}

AppInit ==
    /\ metadata = NoMetadata
    /\ data = <<>>
    /\ metricData = <<>>
    /\ windowSizeSeconds = One
    /\ overlapPercent = Q(50, 1)
    /\ error = ""
    /\ actualSampleRate = Zero
    /\ samplesPerMinute = <<>>
    /\ maxVisibleWindows = 100
    /\ scrollPosition = 0
    /\ snapToNow = TRUE
    /\ selectedMetrics = DefaultMetrics
    /\ parseFileEnv = [selectedMetrics |-> DefaultMetrics, snapToNow |-> TRUE,
                       maxVisibleWindows |-> 100]
    /\ parses = <<>>
    /\ timers = <<>>
    /\ last = [op |-> "init", file |-> "", newMetrics |-> {}, status |-> "none"]
    /\ selectedFile = ""
    /\ events = 0

NoRet == [fn |-> "none"]

-----------------------------------------------------------------------------
(* Sample-rate inference on its own: every series of up to MaxSamples      *)
(* samples with times drawn from RateTimes.                                *)

RateTimes == {NaN, PosInf, NegInf, Zero, Q(1, 2), Q(3, 1)}

\* a series with the given times; the axis values identify the sample
SeriesOfTimes(ts) ==
    [i \in 1..Len(ts) |-> DataPoint(ts[i], Q(i, 1), Q(10 + i, 1), Q(-i, 1))]

RateInputs ==
    {SeriesOfTimes(ts) : ts \in UNION {[1..n -> RateTimes] : n \in 0..MaxSamples}}

TimesOf(dataPoints) == [i \in 1..Len(dataPoints) |-> dataPoints[i].time]

InitRate ==
    /\ arg \in {[dataPoints |-> dp] : dp \in RateInputs}
    /\ ret = NoRet
    /\ AppInit

CallCalculateActualSampleRate ==
    /\ ret' = [fn |-> "calculateActualSampleRate",
               out |-> calculateActualSampleRate(arg.dataPoints),
               dataPointsAfter |->
                   calculateActualSampleRateHeap(<<arg.dataPoints>>, 1)[1]]
    /\ UNCHANGED <<arg, appVars>>

CallCalculateSampleRate ==
    /\ ret' = [fn |-> "calculateSampleRate",
               out |-> [actualSampleRate |-> calculateSampleRate(TimesOf(arg.dataPoints))]]
    /\ UNCHANGED <<arg, appVars>>

NextRate == CallCalculateActualSampleRate \/ CallCalculateSampleRate

SpecRate == InitRate /\ [][NextRate]_vars

\* the call under analysis in SpecRate
RateN == Len(arg.dataPoints)
RateT0 == arg.dataPoints[1].time
RateTN == arg.dataPoints[RateN].time
RateRange == Sub(RateTN, RateT0)
RateCalled == ret.fn \in {"calculateActualSampleRate", "calculateSampleRate"}

\* C1: for n >= 2 samples whose first and last times are numbers with
\* tN - t0 > 0, both rate functions return (n - 1) / (tN - t0); a two-sample
\* series [0, T] gives exactly 1/T (rate * T = 1).
C1_RateFormula ==
    (RateCalled /\ RateN >= 2) =>
        ((~isNaN(RateT0) /\ ~isNaN(RateTN) /\ Gt(RateRange, Zero)) =>
            /\ ret.out.actualSampleRate =
                  (IF IsFinite(RateRange)
                   THEN Q((RateN - 1) * RateRange.d, RateRange.n)
                   ELSE Zero)
            /\ (RateN = 2 /\ RateT0 = Zero /\ IsFinite(RateTN))
                  => Mul(ret.out.actualSampleRate, RateTN) = One)

C1_Witness ==
    /\ ret.fn = "calculateActualSampleRate"
    /\ RateN = 3
    /\ RateT0 = Q(1, 2) /\ RateTN = Q(3, 1)
    /\ ret.out.actualSampleRate = Q(4, 5)

\* C2: calculateActualSampleRate returns exactly 0 when n < 2, when the first
\* or last time is not a finite number, or when tN - t0 <= 0.
C2_ZeroRate ==
    (ret.fn = "calculateActualSampleRate") =>
        ((\/ RateN < 2
          \/ ~IsFinite(RateT0)
          \/ ~IsFinite(RateTN)
          \/ Le(RateRange, Zero)) => ret.out.actualSampleRate = Zero)

C2_Witness ==
    /\ ret.fn = "calculateActualSampleRate"
    /\ RateN = 2
    /\ RateT0 = Q(3, 1) /\ RateTN = Q(1, 2)
    /\ ret.out.actualSampleRate = Zero

\* C3: whenever calculateActualSampleRate returns rate 0, normalizedData is
\* the input series unmodified.
C3_ZeroRatePassThrough ==
    (ret.fn = "calculateActualSampleRate" /\ ret.out.actualSampleRate = Zero)
        => ret.out.normalizedData = arg.dataPoints

\* C4: when calculateActualSampleRate returns rate > 0, normalizedData has
\* the input's length and order, keeps ax, ay, az, has time = input time
\* minus the first input time, and starts at exactly 0.
C4_Normalized ==
    (ret.fn = "calculateActualSampleRate" /\ Gt(ret.out.actualSampleRate, Zero)) =>
        /\ Len(ret.out.normalizedData) = RateN
        /\ \A i \in 1..RateN :
              /\ ret.out.normalizedData[i].ax = arg.dataPoints[i].ax
              /\ ret.out.normalizedData[i].ay = arg.dataPoints[i].ay
              /\ ret.out.normalizedData[i].az = arg.dataPoints[i].az
              /\ ret.out.normalizedData[i].time = Sub(arg.dataPoints[i].time, RateT0)
        /\ ret.out.normalizedData[1].time = Zero

C4_Witness ==
    /\ ret.fn = "calculateActualSampleRate"
    /\ RateN = 3
    /\ RateT0 = Q(1, 2) /\ RateTN = Q(3, 1)
    /\ Gt(ret.out.actualSampleRate, Zero)
    /\ TimesOf(ret.out.normalizedData) = <<Zero, Q(5, 2), Q(5, 2)>>

-----------------------------------------------------------------------------
(* Windowing and metric records on their own: calculateMetrics and         *)
(* calculateRMS applied to series of up to MaxSeriesLen samples under      *)
(* valid and invalid settings.                                             *)

SeriesKinds == {"regular", "fine", "unordered"}

\* sample times: every 0.5 s, every 1.5 ms, or every 0.5 s running backwards
\* (with ax running backwards as well, so that the totals are not sorted)
SeriesTime(kind, i, n) ==
    CASE kind = "regular"   -> Q(i - 1, 2)
      [] kind = "fine"      -> Q(3 * (i - 1), 2000)
      [] kind = "unordered" -> Q(n - i, 2)

Series(kind, n) ==
    [i \in 1..n |->
        DataPoint(SeriesTime(kind, i, n),
                  Q(IF kind = "unordered" THEN n + 1 - i ELSE i, 1),
                  Q(2, 1), Q(-i, 1))]

WindowSecondsValues == {NaN, Q(-1, 1), Zero, Q(1, 2), One, Q(2, 1)}
OverlapPctValues == {NaN, Q(-50, 1), Zero, Q(25, 1), Q(50, 1), Q(75, 1),
                     Q(95, 1), Q(100, 1), Q(150, 1)}
SampleRateValues == {Zero, One, Q(3, 2), Q(2, 1)}
MetricSetValues == {{}, DefaultMetrics, {"rms_x", "percentile_90"},
                    {"band_0_1"}, {"rms_y", "band_90_100"},
                    AxisMetrics \cup {"rms_total"}}
StartTimeMs == Q(5000, 1)

InitMetrics ==
    /\ arg \in [dataPoints : {Series(kd, n) : kd \in SeriesKinds, n \in 0..MaxSeriesLen},
                windowSeconds : WindowSecondsValues,
                overlapPct : OverlapPctValues,
                sampleRate : SampleRateValues,
                startTime : {StartTimeMs},
                selectedMetrics : MetricSetValues]
    /\ ret = NoRet
    /\ AppInit

CallCalculateMetrics ==
    /\ LET after == calculateMetricsHeap(<<arg.dataPoints>>, 1, arg.windowSeconds,
                                         arg.overlapPct, arg.sampleRate,
                                         arg.selectedMetrics)
       IN  ret' = [fn |-> "calculateMetrics",
                   out |-> calculateMetrics(arg.dataPoints, arg.windowSeconds,
                                            arg.overlapPct, arg.sampleRate,
                                            arg.startTime, arg.selectedMetrics),
                   dataPointsAfter |-> after.heap[1],
                   windowsAfter |-> [k \in 1..Len(after.windows) |->
                                        after.heap[after.windows[k]]]]
    /\ UNCHANGED <<arg, appVars>>

CallCalculateRMS ==
    /\ ret' = [fn |-> "calculateRMS",
               out |-> calculateRMS(arg.dataPoints, arg.windowSeconds, arg.sampleRate)]
    /\ UNCHANGED <<arg, appVars>>

NextMetrics ==
    \/ CallCalculateMetrics
    \/ CallCalculateRMS
    \/ CallCalculateActualSampleRate

SpecMetrics == InitMetrics /\ [][NextMetrics]_vars

\* the call under analysis in SpecMetrics, in plain integers
ArgN == Len(arg.dataPoints)
ValidConfig ==
    /\ Gt(arg.windowSeconds, Zero)
    /\ Ge(arg.overlapPct, Zero) /\ Lt(arg.overlapPct, Q(100, 1))
    /\ Gt(arg.sampleRate, Zero)
\* max(1, round(windowSeconds * rate)), for numeric arguments
ArgWindowSize ==
    LET x == Mul(arg.windowSeconds, arg.sampleRate)
        r == (2 * x.n + x.d) \div (2 * x.d)
    IN  IF r < 1 THEN 1 ELSE r
\* floor(windowSizeSamples * f) for f = overlapPct / 100
ArgOverlap == (ArgWindowSize * arg.overlapPct.n) \div (100 * arg.overlapPct.d)
ArgStep == IF ArgWindowSize - ArgOverlap < 1 THEN 1 ELSE ArgWindowSize - ArgOverlap
MinInt(a, b) == IF a < b THEN a ELSE b
MaxInt(a, b) == IF a > b THEN a ELSE b
Windows == ret.out.windows
NumWindows == Len(ret.out.windows)
WindowSet(w) == {i \in 0..(ArgN - 1) : w[1] <= i /\ i < w[2]}

\* C5: for n >= 1, windowSeconds > 0, f in [0,1) and rate > 0, calculateMetrics
\* emits exactly one record per start 0, step, 2*step, ... < n (ceil(n/step)
\* records, in increasing start order), each over [start, min(start + size, n)).
C5_OneRecordPerStart ==
    (ret.fn = "calculateMetrics" /\ ArgN >= 1 /\ ValidConfig) =>
        /\ ret.out.status = "set"
        /\ Len(ret.out.results) = (ArgN + ArgStep - 1) \div ArgStep
        /\ NumWindows = Len(ret.out.results)
        /\ \A k \in 1..NumWindows :
              /\ Windows[k][1] = (k - 1) * ArgStep
              /\ Windows[k][1] < ArgN
              /\ Windows[k][2] = MinInt(Windows[k][1] + ArgWindowSize, ArgN)

\* C6: with overlap 0 the windows of calculateMetrics and of calculateRMS are
\* pairwise disjoint and their union is exactly [0, n).
C6_DisjointCover ==
    (/\ ret.fn \in {"calculateMetrics", "calculateRMS"}
     /\ ArgN >= 1
     /\ arg.overlapPct = Zero
     /\ Gt(arg.windowSeconds, Zero)
     /\ Gt(arg.sampleRate, Zero)) =>
        /\ \A j, k \in 1..NumWindows :
              j # k => WindowSet(Windows[j]) \cap WindowSet(Windows[k]) = {}
        /\ UNION {WindowSet(Windows[k]) : k \in 1..NumWindows} = 0..(ArgN - 1)

\* number of sample indices windows k and k + 1 have in common
Shared(k) == Cardinality(WindowSet(Windows[k]) \cap WindowSet(Windows[k + 1]))
WindowLen(k) == Windows[k][2] - Windows[k][1]
OverlapInRange == Ge(arg.overlapPct, Zero) /\ Lt(arg.overlapPct, Q(100, 1))

\* C7 as stated: with f in [0,1) every pair of consecutive windows, the pairs
\* at the end of the series included, shares exactly floor(windowSizeSamples * f)
\* sample indices.
C7_EveryPairSharesOverlap ==
    (ret.fn = "calculateMetrics" /\ OverlapInRange) =>
        \A k \in 1..(NumWindows - 1) : Shared(k) = ArgOverlap

\* C7 amended: a pair of consecutive windows shares exactly
\* floor(windowSizeSamples * f) indices when its first window has the full
\* windowSizeSamples samples; when its first window is cut short by the end
\* of the series the pair shares n - (start of the second window), which is
\* fewer.
C7_FullPairSharesOverlap ==
    (ret.fn = "calculateMetrics" /\ OverlapInRange) =>
        \A k \in 1..(NumWindows - 1) :
            IF Windows[k][1] + ArgWindowSize <= ArgN
            THEN Shared(k) = ArgOverlap
            ELSE Shared(k) = ArgN - Windows[k + 1][1] /\ Shared(k) < ArgOverlap

C7_Witness ==
    /\ ret.fn = "calculateMetrics"
    /\ arg.overlapPct = Q(50, 1)
    /\ ArgN = 5
    /\ Windows = << <<0, 4>>, <<2, 5>>, <<4, 5>> >>

C9_OnlyFinalWindowShort ==
    (ret.fn = "calculateMetrics" /\ ValidConfig) =>
        \A k \in 1..NumWindows :
            /\ WindowLen(k) >= 1
            /\ WindowLen(k) <= ArgWindowSize
            /\ WindowLen(k) < ArgWindowSize
                  => (k = NumWindows /\ ArgN % ArgStep # 0)

\* C9 amended: under a valid configuration a window is shorter than
\* windowSizeSamples exactly when it runs to the end of the series
\* (start + windowSizeSamples > n); every window after a short one is short;
\* with overlap 0 only the final window can be short and only when n is not
\* a multiple of step; every other window has exactly windowSizeSamples
\* samples and no window is empty.
C9_ShortWindowsTrail ==
    (ret.fn = "calculateMetrics" /\ ValidConfig) =>
        \A k \in 1..NumWindows :
            /\ WindowLen(k) >= 1
            /\ WindowLen(k) <= ArgWindowSize
            /\ (WindowLen(k) < ArgWindowSize)
                  <=> (Windows[k][1] + ArgWindowSize > ArgN)
            /\ WindowLen(k) < ArgWindowSize => Windows[k][2] = ArgN
            /\ (WindowLen(k) < ArgWindowSize /\ k < NumWindows)
                  => WindowLen(k + 1) < ArgWindowSize
            /\ (WindowLen(k) < ArgWindowSize /\ ArgOverlap = 0)
                  => (k = NumWindows /\ ArgN % ArgStep # 0)

C9_Witness ==
    /\ ret.fn = "calculateMetrics"
    /\ ValidConfig
    /\ ArgN = 4
    /\ ArgWindowSize = 4
    /\ Windows = << <<0, 4>>, <<2, 4>> >>

InvalidConfiguration ==
    \/ Le(arg.windowSeconds, Zero)
    \/ Lt(arg.overlapPct, Zero)
    \/ Ge(arg.overlapPct, Q(100, 1))
    \/ arg.selectedMetrics = {}

\* C20: calculateMetrics called with windowSeconds <= 0, with an overlap
\* percentage < 0 or >= 100, or with an empty selected-metric set, rejects
\* the call and hands no record to setMetricData.
C20_InvalidConfigurationRejected ==
    (ret.fn = "calculateMetrics" /\ InvalidConfiguration) =>
        /\ ret.out.status # "set"
        /\ ret.out.results = <<>>

\* C16: for every record of calculateMetrics that carries the four RMS
\* metrics, rms_total^2 = rms_x^2 + rms_y^2 + rms_z^2 and rms_total is at
\* least each of rms_x, rms_y, rms_z (compared through their squares, the
\* square root being monotone).
C16_TotalDominatesAxes ==
    (ret.fn = "calculateMetrics"
        /\ (AxisMetrics \cup {"rms_total"}) \subseteq arg.selectedMetrics) =>
        \A k \in 1..Len(ret.out.results) :
            LET v == ret.out.results[k].values
            IN  /\ \A m \in AxisMetrics \cup {"rms_total"} : v[m].kind = "sqrt"
                /\ v["rms_total"].v =
                      Add(Add(v["rms_x"].v, v["rms_y"].v), v["rms_z"].v)
                /\ \A m \in AxisMetrics : Ge(v["rms_total"].v, v[m].v)

C16_Witness ==
    /\ ret.fn = "calculateMetrics"
    /\ arg.selectedMetrics = AxisMetrics \cup {"rms_total"}
    /\ arg.dataPoints = Series("regular", 5)
    /\ Len(ret.out.results) >= 2
    /\ ret.out.results[1].values["rms_x"].v = Q(5, 2)
    /\ ret.out.results[1].values["rms_y"].v = Q(4, 1)
    /\ ret.out.results[1].values["rms_total"].v = Q(9, 1)

\* the sizes calculateMetrics computes for the call under analysis
ArgSizeNumber == windowSizeSamplesOf(arg.windowSeconds, arg.sampleRate)
ArgStepNumber ==
    stepSizeOf(ArgSizeNumber, overlapSamplesOf(ArgSizeNumber, arg.overlapPct))

\* the windows calculateMetrics slices from the series, up to a throw
SlicedRanges ==
    IF arg.sampleRate = Zero THEN <<>>
    ELSE WindowLoop(ArgN, Zero, ArgSizeNumber, ArgStepNumber)

\* C21: calculateActualSampleRate and calculateMetrics (with the percentile
\* sort and the band transform) leave the caller's series as it was: same
\* length, order, times and axis values; every window handed to the metric
\* functions is, after they ran, still the slice of the series it was cut as.
C21_SeriesNotMutated ==
    /\ (ret.fn = "calculateActualSampleRate") =>
            ret.dataPointsAfter = arg.dataPoints
    /\ (ret.fn = "calculateMetrics") =>
          /\ ret.dataPointsAfter = arg.dataPoints
          /\ Len(ret.windowsAfter) <= Len(SlicedRanges)
          /\ ret.out.status = "set" => Len(ret.windowsAfter) = NumWindows
          /\ \A k \in 1..Len(ret.windowsAfter) :
                ret.windowsAfter[k] =
                    Slice(arg.dataPoints, SlicedRanges[k][1], SlicedRanges[k][2])

C21_Witness ==
    /\ ret.fn = "calculateMetrics"
    /\ arg.dataPoints = Series("unordered", 5)
    /\ "percentile_90" \in arg.selectedMetrics
    /\ ret.out.status = "set"
    /\ Len(ret.windowsAfter) = 3
    /\ ret.windowsAfter[1] = SubSeq(arg.dataPoints, 1, 4)
    /\ ret.dataPointsAfter = arg.dataPoints

\* C25: calculateRMS of the single-metric variant, called with the inferred
\* rate 0 on a non-empty series, produces no RMS record.
C25_ZeroRateNoRMSRecord ==
    (ret.fn = "calculateRMS" /\ ArgN >= 1 /\ arg.sampleRate = Zero) =>
        ret.out.results = <<>>

\* C27: for every windowSeconds and overlap percent (<= 0, >= 100, negative
\* and NaN included) the loop of calculateMetrics ends: stepSize is >= 1, or
\* it is NaN and the loop makes one iteration at most; at most n records are
\* emitted for n samples.
C27_WindowLoopTerminates ==
    (ret.fn = "calculateMetrics" /\ ArgN >= 1 /\ arg.sampleRate # Zero) =>
        /\ \/ Ge(ArgStepNumber, One)
           \/ isNaN(ArgStepNumber) /\ NumWindows <= 1
        /\ NumWindows <= ArgN
        /\ Len(ret.out.results) <= ArgN

C27_Witness ==
    /\ ret.fn = "calculateMetrics"
    /\ arg.overlapPct = Q(150, 1)
    /\ arg.windowSeconds = Q(2, 1)
    /\ arg.sampleRate = Q(2, 1)
    /\ ArgN = 5
    /\ ArgStepNumber = One
    /\ Windows = << <<0, 4>>, <<1, 5>>, <<2, 5>>, <<3, 5>>, <<4, 5>> >>

\* C28: for an overlap percent in [0, 100), windowSeconds > 0 and rate > 0
\* the windows of calculateMetrics leave no gap: step <= windowSizeSamples,
\* each window starts at or before the end of the one before it, and every
\* index in [0, n) lies in a window.
C28_NoGap ==
    (ret.fn = "calculateMetrics" /\ ArgN >= 1 /\ ValidConfig) =>
        /\ ArgStep <= ArgWindowSize
        /\ \A k \in 1..(NumWindows - 1) : Windows[k + 1][1] <= Windows[k][2]
        /\ UNION {WindowSet(Windows[k]) : k \in 1..NumWindows} = 0..(ArgN - 1)

-----------------------------------------------------------------------------
(* The per-window metric functions on their own: one window of up to       *)
(* MaxWindowLen samples, a sample rate and a metric.                       *)

WindowKinds == {"ramp", "scattered", "verification"}

\* the az readings of the worked RMS example, in thousandths
VerificationAz == <<9785, 9801, 9773, 9792, 9799>>

WindowSample(kind, i) ==
    CASE kind = "ramp" ->
            DataPoint(Q(i - 1, 2), Q(i, 1), Q(2, 1), Q(-i, 1))
      [] kind = "scattered" ->
            DataPoint(Q(i - 1, 2), Q((5 * i) % 13, 1), Zero, Zero)
      [] kind = "verification" ->
            DataPoint(Q(i - 1, 2), Zero, Zero,
                      Q(VerificationAz[((i - 1) % 5) + 1], 1000))

WindowOf(kind, n) == [i \in 1..n |-> WindowSample(kind, i)]

WindowRateValues == {Zero, Q(3, 2), Q(2, 1), Q(8, 1), Q(250, 1)}

InitWindow ==
    /\ arg \in [window : {WindowOf(kd, n) : kd \in WindowKinds, n \in 0..MaxWindowLen},
                sampleRate : WindowRateValues,
                metric : MetricType]
    /\ ret = NoRet
    /\ AppInit

AxisName(m) ==
    CASE m = "rms_x" -> "ax" [] m = "rms_y" -> "ay" [] m = "rms_z" -> "az"

\* calculateMetrics hands the metric functions non-empty windows only
CallCalculateAxisRMS ==
    /\ arg.metric \in AxisMetrics
    /\ Len(arg.window) > 0
    /\ ret' = [fn |-> "calculateAxisRMS", status |-> "return",
               out |-> calculateAxisRMS(arg.window, AxisName(arg.metric))]
    /\ UNCHANGED <<arg, appVars>>

CallTotalRMS ==
    /\ arg.metric = "rms_total"
    /\ Len(arg.window) > 0
    /\ ret' = [fn |-> "rms_total", status |-> "return", out |-> TotalRMS(arg.window)]
    /\ UNCHANGED <<arg, appVars>>

CallCalculate90thPercentile ==
    /\ arg.metric = "percentile_90"
    /\ Len(arg.window) > 0
    /\ ret' = [fn |-> "calculate90thPercentile", status |-> "return",
               out |-> calculate90thPercentile(arg.window)]
    /\ UNCHANGED <<arg, appVars>>

CallCalculateFrequencyBandRMS ==
    /\ arg.metric \in BandMetrics
    /\ ret' = [fn |-> "calculateFrequencyBandRMS",
               status |-> IF MetricThrows(arg.metric, arg.window, arg.sampleRate)
                          THEN "throw" ELSE "return",
               out |-> calculateFrequencyBandRMS(arg.window, arg.sampleRate,
                                                 BandRange(arg.metric)[1],
                                                 BandRange(arg.metric)[2])]
    /\ UNCHANGED <<arg, appVars>>

NextWindow ==
    \/ CallCalculateAxisRMS
    \/ CallTotalRMS
    \/ CallCalculate90thPercentile
    \/ CallCalculateFrequencyBandRMS

SpecWindow == InitWindow /\ [][NextWindow]_vars

\* the call under analysis in SpecWindow, in plain integers
BandCalled == ret.fn = "calculateFrequencyBandRMS"
WinLen == Len(arg.window)
BandLo == BandRange(arg.metric)[1]
BandHi == BandRange(arg.metric)[2]
\* bin i of a transform of size N lies in [lo, hi) Hz at the call's rate
BinInBand(i, N, lo, hi) ==
    /\ lo * N * arg.sampleRate.d <= i * arg.sampleRate.n
    /\ i * arg.sampleRate.n < hi * N * arg.sampleRate.d
IsPowerOfTwo(N) == \E e \in 0..WinLen : N = Pow2(e)

\* C13: calculateFrequencyBandRMS returns 0 for every window of length >= 1
\* and every band [minFreq, maxFreq) with minFreq >= rate / 2.
C13_BandAboveNyquistIsZero ==
    (/\ BandCalled
     /\ WinLen >= 1
     /\ Gt(arg.sampleRate, Zero)
     /\ Ge(Q(BandLo, 1), Div(arg.sampleRate, Q(2, 1)))) =>
        /\ ret.status = "return"
        /\ ret.out.count = 0

\* C14: for a non-empty window at a positive rate, the bins summed for band
\* [minFreq, maxFreq) are exactly the bins i in [0, fftSize/2) with
\* minFreq <= i * rate / fftSize < maxFreq, the value is sqrt(sum / count)
\* over them when count > 0 and 0 otherwise; every such bin below 100 Hz is
\* summed in exactly one of the twelve bands and bin 0 is summed in band_0_1.
C14_BinsOfBand ==
    (BandCalled /\ WinLen >= 1 /\ Gt(arg.sampleRate, Zero)) =>
        LET N == Pow2(CeilLog2(WinLen))
            examined == {i \in 0..N : 2 * i < N}
            binsOf(b) == calculateFrequencyBandRMS(arg.window, arg.sampleRate,
                                                   BandRange(b)[1], BandRange(b)[2]).bins
        IN  /\ ret.status = "return"
            /\ ret.out.bins = {i \in examined : BinInBand(i, N, BandLo, BandHi)}
            /\ ret.out.count = Cardinality(ret.out.bins)
            /\ \A i \in examined :
                  BinInBand(i, N, 0, 100) =>
                      Cardinality({b \in BandMetrics : i \in binsOf(b)}) = 1
            /\ 0 \in binsOf("band_0_1")

\* C15: for every segment length m >= 1 calculateFrequencyBandRMS constructs
\* the transform at fftSize = 2^ceil(log2(m)), the smallest power of two
\* >= m (m <= fftSize < 2m, fftSize = 1 for m = 1), and returns a band value;
\* a one-sample window is analysed like any other.
C15_PadsToPowerOfTwo ==
    (BandCalled /\ WinLen >= 1 /\ Gt(arg.sampleRate, Zero)) =>
        /\ ret.status = "return"
        /\ IsPowerOfTwo(ret.out.fftSize)
        /\ WinLen <= ret.out.fftSize
        /\ ret.out.fftSize < 2 * WinLen
        /\ WinLen = 1 => ret.out.fftSize = 1

\* C17: calculate90thPercentile returns, for a window of length L >= 1, the
\* element at index floor(0.9 * L) of the per-sample totals sorted ascending,
\* with no interpolation; the index is within 0..L-1, so the result is one of
\* the window's totals.
C17_NearestRankPercentile ==
    (ret.fn = "calculate90thPercentile") =>
        LET index == (9 * WinLen) \div 10
            total(i) == TotalSquared(arg.window[i])
            below == {i \in 1..WinLen : Lt(total(i), ret.out.v)}
            upTo == {i \in 1..WinLen : Le(total(i), ret.out.v)}
        IN  /\ 0 <= index /\ index <= WinLen - 1
            /\ ret.out.kind = "sqrt"
            /\ \E i \in 1..WinLen : ret.out.v = total(i)
            /\ Cardinality(below) <= index
            /\ index < Cardinality(upTo)

C17_Witness ==
    /\ ret.fn = "calculate90thPercentile"
    /\ arg.window = WindowOf("scattered", 11)
    /\ ret.out = SqrtOf(Q(121, 1))

\* natural numbers beyond the machine word, in limbs of four decimal digits,
\* least significant limb first

RECURSIVE BigOfNat(_)
BigOfNat(n) == IF n < 10000 THEN <<n>> ELSE <<n % 10000>> \o BigOfNat(n \div 10000)

RECURSIVE Carry(_, _)
Carry(s, c) ==
    IF Len(s) = 0 THEN (IF c = 0 THEN <<>> ELSE BigOfNat(c))
    ELSE <<(s[1] + c) % 10000>> \o Carry(Tail(s), (s[1] + c) \div 10000)

RECURSIVE ConvAt(_, _, _, _)
ConvAt(a, b, k, i) ==
    IF i > Len(a) THEN 0
    ELSE (IF (k - i + 1) \in 1..Len(b) THEN a[i] * b[k - i + 1] ELSE 0)
         + ConvAt(a, b, k, i + 1)

BigMul(a, b) == Carry([k \in 1..(Len(a) + Len(b) - 1) |-> ConvAt(a, b, k, 1)], 0)

Limb(a, k) == IF k <= Len(a) THEN a[k] ELSE 0

RECURSIVE BigLessFrom(_, _, _)
BigLessFrom(a, b, k) ==
    IF k = 0 THEN FALSE
    ELSE IF Limb(a, k) # Limb(b, k) THEN Limb(a, k) < Limb(b, k)
    ELSE BigLessFrom(a, b, k - 1)

BigLess(a, b) == BigLessFrom(a, b, Len(a) + Len(b))

\* sqrt(v) rounded to 6 decimals is r / 10^6, for v with at most 6 decimals:
\* (2r - 1)^2 <= 4 * v * 10^12 < (2r + 1)^2
SqrtRoundsTo6(v, r) ==
    LET scaled == BigMul(BigOfNat(4 * v.n * (1000000 \div v.d)), BigOfNat(1000000))
        lo == BigMul(BigOfNat(2 * r - 1), BigOfNat(2 * r - 1))
        hi == BigMul(BigOfNat(2 * r + 1), BigOfNat(2 * r + 1))
    IN  /\ 1000000 % v.d = 0
        /\ ~BigLess(scaled, lo)
        /\ BigLess(scaled, hi)

RECURSIVE SumSquaresTo(_, _, _)
SumSquaresTo(window, axis, k) ==
    IF k = 0 THEN Zero
    ELSE Add(SumSquaresTo(window, axis, k - 1),
             Mul(AxisOf(window[k], axis), AxisOf(window[k], axis)))

\* C18: calculateAxisRMS returns sqrt(sum of squares of the axis values /
\* window length); for az = [9.785, 9.801, 9.773, 9.792, 9.799] the sum of
\* squares is 479.221020, the mean square 95.844204 and rms_z 9.790005 to 6
\* decimals.
C18_AxisRMS ==
    (ret.fn = "calculateAxisRMS") =>
        LET sumSquares == SumSquaresTo(arg.window, AxisName(arg.metric), WinLen)
        IN  /\ ret.out.kind = "sqrt"
            /\ Mul(ret.out.v, Q(WinLen, 1)) = sumSquares
            /\ (arg.window = WindowOf("verification", 5) /\ arg.metric = "rms_z") =>
                  /\ sumSquares = Q(479221020, 1000000)
                  /\ ret.out.v = Q(95844204, 1000000)
                  /\ SqrtRoundsTo6(ret.out.v, 9790005)

C18_Witness ==
    /\ ret.fn = "calculateAxisRMS"
    /\ arg.window = WindowOf("verification", 5)
    /\ arg.metric = "rms_z"
    /\ ret.out = SqrtOf(Q(95844204, 1000000))
    /\ SqrtRoundsTo6(ret.out.v, 9790005)
    /\ ~SqrtRoundsTo6(ret.out.v, 9790004)
    /\ ~SqrtRoundsTo6(ret.out.v, 9790006)

-----------------------------------------------------------------------------
(* The parsers.  A string is a sequence of one-character strings; the      *)
(* files are ASCII, so the bytes of a buffer and the characters decoded    *)
(* from it coincide.  The strings handed to parseFloat here carry no       *)
(* exponent and no "Infinity".                                             *)

LF == "\n"
CR == "\r"

RECURSIVE TrimStart(_)
TrimStart(s) ==
    IF s # <<>> /\ Head(s) \in {" ", "\t", LF, CR} THEN TrimStart(Tail(s))
    ELSE s

RECURSIVE TrimEnd(_)
TrimEnd(s) ==
    IF s # <<>> /\ s[Len(s)] \in {" ", "\t", LF, CR}
    THEN TrimEnd(SubSeq(s, 1, Len(s) - 1))
    ELSE s

\* String.prototype.trim
Trim(s) == TrimEnd(TrimStart(s))

\* String.prototype.split with a one-character separator
RECURSIVE Split(_, _)
Split(s, c) ==
    IF \E i \in 1..Len(s) : s[i] = c
    THEN LET i == CHOOSE j \in 1..Len(s) :
                     s[j] = c /\ \A h \in 1..(j - 1) : s[h] # c
         IN  <<SubSeq(s, 1, i - 1)>> \o Split(SubSeq(s, i + 1, Len(s)), c)
    ELSE <<s>>

\* line.split(',').map(v => v.trim())
SplitFields(line) ==
    LET parts == Split(line, ",") IN [k \in 1..Len(parts) |-> Trim(parts[k])]

StartsWith(s, p) == Len(s) >= Len(p) /\ SubSeq(s, 1, Len(p)) = p

\* headers.findIndex(test), zero-based and -1 when absent, given for each
\* header whether the test accepts it
FindIndex(accepted) ==
    IF \E i \in 1..Len(accepted) : accepted[i]
    THEN (CHOOSE i \in 1..Len(accepted) :
              accepted[i] /\ \A h \in 1..(i - 1) : ~accepted[h]) - 1
    ELSE -1

DigitChars == <<"0", "1", "2", "3", "4", "5", "6", "7", "8", "9">>

IsDigit(c) == \E v \in 1..Len(DigitChars) : DigitChars[v] = c

DigitVal(c) == (CHOOSE v \in 1..Len(DigitChars) : DigitChars[v] = c) - 1

RECURSIVE DigitsVal(_)
DigitsVal(s) ==
    IF s = <<>> THEN 0
    ELSE DigitsVal(SubSeq(s, 1, Len(s) - 1)) * 10 + DigitVal(s[Len(s)])

\* the longest prefix of s made of decimal digits
DigitPrefix(s) ==
    LET n == CHOOSE k \in 0..Len(s) :
                 /\ \A j \in 1..k : IsDigit(s[j])
                 /\ k < Len(s) => ~IsDigit(s[k + 1])
    IN  SubSeq(s, 1, n)

RECURSIVE Pow10(_)
Pow10(e) == IF e = 0 THEN 1 ELSE 10 * Pow10(e - 1)

\* parseFloat: optional white space and sign, then the longest decimal
\* literal the string starts with; NaN when there is none
parseFloat(str) ==
    LET s == TrimStart(str)
        signed == s # <<>> /\ s[1] \in {"-", "+"}
        body == IF signed THEN Tail(s) ELSE s
        ip == DigitPrefix(body)
        rest == SubSeq(body, Len(ip) + 1, Len(body))
        fp == IF rest # <<>> /\ rest[1] = "." THEN DigitPrefix(Tail(rest))
              ELSE <<>>
        mag == Q(DigitsVal(ip \o fp), Pow10(Len(fp)))
    IN  IF ip = <<>> /\ fp = <<>> THEN NaN
        ELSE IF s[1] = "-" THEN Neg(mag) ELSE mag

\* parseInt: optional white space and sign, then the digits the string
\* starts with; NaN when there is none
parseInt(str) ==
    LET s == TrimStart(str)
        signed == s # <<>> /\ s[1] \in {"-", "+"}
        body == IF signed THEN Tail(s) ELSE s
        ip == DigitPrefix(body)
    IN  IF ip = <<>> THEN NaN
        ELSE IF s[1] = "-" THEN Q(-DigitsVal(ip), 1) ELSE Q(DigitsVal(ip), 1)

\* timeStr.match(/^(\d+):(\d+):(\d+):(\d+)$/): the four groups, or <<>>
TimestampMatch(timeStr) ==
    LET groups == Split(timeStr, ":")
    IN  IF /\ Len(groups) = 4
           /\ \A g \in 1..4 :
                 /\ groups[g] # <<>>
                 /\ \A j \in 1..Len(groups[g]) : IsDigit(groups[g][j])
        THEN groups
        ELSE <<>>

\* hours * 3600 + minutes * 60 + seconds + milliseconds / 1000
TimestampSeconds(timestampMatch) ==
    LET hours == parseInt(timestampMatch[1])
        minutes == parseInt(timestampMatch[2])
        seconds == parseInt(timestampMatch[3])
        milliseconds == parseInt(timestampMatch[4])
    IN  Add(Add(Add(Mul(hours, Q(3600, 1)), Mul(minutes, Q(60, 1))), seconds),
            Div(milliseconds, Q(1000, 1)))

\* a parseTimeValue that tries parseFloat before the timestamp form
parseTimeValue_FloatFirst(timeStr) ==
    LET numValue == parseFloat(timeStr)
        timestampMatch == TimestampMatch(timeStr)
    IN  IF ~isNaN(numValue) THEN numValue
        ELSE IF timestampMatch # <<>> THEN TimestampSeconds(timestampMatch)
        ELSE NaN

parseTimeValue(timeStr) ==
    LET timestampMatch == TimestampMatch(timeStr)
        numValue == parseFloat(timeStr)
    IN  IF timestampMatch # <<>> THEN TimestampSeconds(timestampMatch)
        ELSE IF ~isNaN(numValue) THEN numValue
        ELSE NaN

\* the state of parseCSVFromBuffer before its first chunk
BufferStart ==
    [currentLine |-> <<>>, rowCount |-> 0, isFirstRow |-> TRUE,
     headers |-> <<>>, dataPoints |-> <<>>]

\* the inner loop of parseCSVFromBuffer over the text of one chunk, from
\* its i-th character on; when the row limit is reached the loop is left
\* before currentLine is cleared
RECURSIVE ChunkText(_, _, _, _)
ChunkText(text, i, st, maxRows) ==
    IF i > Len(text) THEN st
    ELSE
      LET char == text[i]
          skip == IF char = CR /\ i + 1 <= Len(text) /\ text[i + 1] = LF
                  THEN 2 ELSE 1
          pushed == [st EXCEPT !.dataPoints = Append(@, SplitFields(st.currentLine)),
                               !.rowCount = @ + 1]
      IN  IF char = LF \/ char = CR
          THEN IF Trim(st.currentLine) # <<>>
               THEN IF st.isFirstRow
                    THEN ChunkText(text, i + skip,
                                   [st EXCEPT !.headers = SplitFields(st.currentLine),
                                              !.isFirstRow = FALSE,
                                              !.currentLine = <<>>],
                                   maxRows)
                    ELSE IF pushed.rowCount >= maxRows
                    THEN pushed
                    ELSE ChunkText(text, i + skip,
                                   [pushed EXCEPT !.currentLine = <<>>], maxRows)
               ELSE ChunkText(text, i + skip,
                              [st EXCEPT !.currentLine = <<>>], maxRows)
          ELSE ChunkText(text, i + 1,
                         [st EXCEPT !.currentLine = Append(@, char)], maxRows)

\* the outer loop of parseCSVFromBuffer from the chunk at offset on
RECURSIVE Chunks(_, _, _, _, _)
Chunks(buffer, offset, st, maxRows, chunkSize) ==
    IF offset < Len(buffer) /\ st.rowCount < maxRows
    THEN LET end == MinInt(offset + chunkSize, Len(buffer))
             text == SubSeq(buffer, offset + 1, end)
             after == ChunkText(text, 1, st, maxRows)
         IN  IF after.rowCount >= maxRows THEN after
             ELSE Chunks(buffer, offset + chunkSize, after, maxRows, chunkSize)
    ELSE st

\* a last-line handling that does not look at the row count
LastLine_NoLimit(st, maxRows) ==
    IF Trim(st.currentLine) # <<>>
    THEN IF st.isFirstRow
         THEN [st EXCEPT !.headers = SplitFields(st.currentLine)]
         ELSE [st EXCEPT !.dataPoints = Append(@, SplitFields(st.currentLine))]
    ELSE st

\* "Handle last line if no trailing newline"
LastLine(st, maxRows) ==
    IF Trim(st.currentLine) # <<>> /\ st.rowCount < maxRows
    THEN IF st.isFirstRow
         THEN [st EXCEPT !.headers = SplitFields(st.currentLine)]
         ELSE [st EXCEPT !.dataPoints = Append(@, SplitFields(st.currentLine))]
    ELSE st

\* parseCSVFromBuffer(buffer, maxRows), read in chunks of chunkSize
parseCSVFromBuffer(buffer, maxRows, chunkSize) ==
    LET st == LastLine(Chunks(buffer, 0, BufferStart, maxRows, chunkSize), maxRows)
    IN  [headers |-> st.headers, dataPoints |-> st.dataPoints]

\* the row loop of both parsers: rows that are long enough and whose time
\* is a number become data points, in order; PhysicsToolboxParser reads the
\* time with parseTimeValue, SensorLoggerParser with parseFloat
RECURSIVE RowLoop(_, _, _, _, _, _)
RowLoop(rows, ti, xi, yi, zi, parser) ==
    IF rows = <<>> THEN <<>>
    ELSE
      LET values == Head(rows)
          more == RowLoop(Tail(rows), ti, xi, yi, zi, parser)
          timeValue == IF parser = "PhysicsToolboxParser"
                       THEN parseTimeValue(values[ti + 1])
                       ELSE parseFloat(values[ti + 1])
      IN  IF Len(values) > MaxInt(MaxInt(ti, xi), MaxInt(yi, zi))
          THEN IF isNaN(timeValue) THEN more
               ELSE <<DataPoint(timeValue, parseFloat(values[xi + 1]),
                                parseFloat(values[yi + 1]),
                                parseFloat(values[zi + 1]))>> \o more
          ELSE more

Str_seconds_elapsed ==
    <<"s", "e", "c", "o", "n", "d", "s", "_", "e", "l", "a", "p", "s", "e", "d">>

\* SensorLoggerParser.parse from the buffer of Accelerometer.csv on
SensorLoggerParse(accelerometerBuffer, limit, chunkSize) ==
    LET csv == parseCSVFromBuffer(accelerometerBuffer, limit, chunkSize)
        headers == csv.headers
        Is(name) == [k \in 1..Len(headers) |-> headers[k] = name]
        secondsElapsedIndex == FindIndex(Is(Str_seconds_elapsed))
        xIndex == FindIndex(Is(<<"x">>))
        yIndex == FindIndex(Is(<<"y">>))
        zIndex == FindIndex(Is(<<"z">>))
        parsedData == RowLoop(csv.dataPoints, secondsElapsedIndex, xIndex,
                              yIndex, zIndex, "SensorLoggerParser")
    IN  IF secondsElapsedIndex = -1 \/ xIndex = -1 \/ yIndex = -1 \/ zIndex = -1
        THEN [status |-> "throw", data |-> <<>>, rows |-> csv.dataPoints,
              message |-> "Missing required columns (seconds_elapsed, x, y, z) in Accelerometer.csv"]
        ELSE IF parsedData = <<>>
        THEN [status |-> "throw", data |-> <<>>, rows |-> csv.dataPoints,
              message |-> "No valid data rows found in Accelerometer.csv"]
        ELSE [status |-> "return", data |-> parsedData,
              rows |-> csv.dataPoints, message |-> ""]

\* PhysicsToolboxParser.parse from the text of the file on; the metadata
\* comments are found when the text has a comment line
PhysicsToolboxParse(text, rowLimit) ==
    LET lines == Split(text, LF)
        hasMetadata == \E k \in 1..Len(lines) : StartsWith(Trim(lines[k]), <<"#">>)
        content == SelectSeq([k \in 1..Len(lines) |-> Trim(lines[k])],
                             LAMBDA l : l # <<>> /\ ~StartsWith(l, <<"#">>))
        headerLine == IF content = <<>> THEN <<>> ELSE Head(content)
        dataLines == IF content = <<>> THEN <<>> ELSE Tail(content)
        headers == SplitFields(headerLine)
        Is(name) == [k \in 1..Len(headers) |-> headers[k] = name]
        IsAxis(name) ==
            [k \in 1..Len(headers) |->
                \/ headers[k] = name
                \/ StartsWith(headers[k], name \o <<" ", "(">>)]
        timeIndex == FindIndex(Is(<<"t", "i", "m", "e">>))
        axIndex == FindIndex(IsAxis(<<"a", "x">>))
        ayIndex == FindIndex(IsAxis(<<"a", "y">>))
        azIndex == FindIndex(IsAxis(<<"a", "z">>))
        limit == MinInt(Len(dataLines), rowLimit)
        rows == [k \in 1..limit |-> SplitFields(dataLines[k])]
        parsedData == RowLoop(rows, timeIndex, axIndex, ayIndex, azIndex,
                              "PhysicsToolboxParser")
    IN  IF ~hasMetadata
        THEN [status |-> "throw", data |-> <<>>, rows |-> <<>>,
              message |-> "Missing required metadata in CSV file"]
        ELSE IF headerLine = <<>>
        THEN [status |-> "throw", data |-> <<>>, rows |-> <<>>,
              message |-> "Missing header line in CSV file"]
        ELSE IF timeIndex = -1 \/ axIndex = -1 \/ ayIndex = -1 \/ azIndex = -1
        THEN [status |-> "throw", data |-> <<>>, rows |-> <<>>,
              message |-> "Missing required columns (time, ax, ay, az) in CSV file"]
        ELSE IF parsedData = <<>>
        THEN [status |-> "throw", data |-> <<>>, rows |-> rows,
              message |-> "No valid data rows found in CSV file"]
        ELSE [status |-> "return", data |-> parsedData, rows |-> rows,
              message |-> ""]

-----------------------------------------------------------------------------
(* The parsers on their own: files of up to MaxLines lines after the       *)
(* header, read with a row limit of MaxRows in chunks of up to MaxChunk    *)
(* characters, and time strings handed to parseTimeValue.                  *)

MaxLines == MaxRows + 2

\* the k-th line after the header; a valid line carries the time k.5
LineText(kind, k) ==
    CASE kind = "valid" ->
            <<DigitChars[k + 1], ".", "5", ",", " ", "1", ",", "-", "2", ",", "3">>
      [] kind = "badtime" -> <<"a", "b", ",", "1", ",", "2", ",", "3">>
      [] kind = "short" -> <<DigitChars[k + 1], ",", "1">>
      [] kind = "blank" -> <<" ">>

HeaderText(format) ==
    IF format = "sensorlogger"
    THEN Str_seconds_elapsed \o <<",", "x", ",", "y", ",", "z">>
    ELSE <<"t", "i", "m", "e", ",", "a", "x", ",", "a", "y", " ", "(", "g", ")",
           ",", "a", "z">>

RECURSIVE JoinLines(_, _, _)
JoinLines(lineKinds, k, sep) ==
    IF k > Len(lineKinds) THEN <<>>
    ELSE LineText(lineKinds[k], k)
         \o (IF k < Len(lineKinds) THEN sep ELSE <<>>)
         \o JoinLines(lineKinds, k + 1, sep)

\* the text of the file: for Physics Toolbox a metadata comment first, then
\* the header and the lines, with or without a final line ending
FileText(f) ==
    (IF f.format = "physicstoolbox" THEN <<"#", "m">> \o f.sep ELSE <<>>)
    \o HeaderText(f.format)
    \o (IF f.lines # <<>> THEN f.sep ELSE <<>>)
    \o JoinLines(f.lines, 1, f.sep)
    \o (IF f.trailing THEN f.sep ELSE <<>>)

\* a file is a format, up to MaxLines lines after the header, a line ending,
\* a final line ending or none, and the chunk size it is read with
FileInputs ==
    [kind : {"file"},
     format : {"sensorlogger", "physicstoolbox"},
     lines : UNION {[1..n -> {"valid", "badtime", "short", "blank"}] :
                       n \in 0..MaxLines},
     sep : {<<LF>>, <<CR, LF>>, <<CR>>},
     trailing : BOOLEAN,
     chunkSize : 1..MaxChunk]

\* a group of digits and the number it denotes
Group(chars, val) == [chars |-> chars, val |-> val]

\* the string h:m:s:ms with the seconds it denotes
Timestamp(h, m, s, ms) ==
    [chars |-> h.chars \o <<":">> \o m.chars \o <<":">> \o s.chars
               \o <<":">> \o ms.chars,
     form |-> "timestamp",
     value |-> Q((h.val * 3600 + m.val * 60 + s.val) * 1000 + ms.val, 1000)]

\* a decimal string with the number it denotes, given in millionths
Decimal(chars, micros) ==
    [chars |-> chars, form |-> "decimal", value |-> Q(micros, 1000000)]

\* the time strings of the first ten rows of physics-toolbox-sample-1.csv
TenTimestamps ==
    LET millis == <<95, 96, 113, 130, 145, 146, 146, 159, 159, 181>>
        chars(v) ==
            <<DigitChars[(v \div 100) + 1], DigitChars[((v \div 10) % 10) + 1],
              DigitChars[(v % 10) + 1]>>
    IN  [i \in 1..10 |->
            Timestamp(Group(<<"2", "3">>, 23), Group(<<"4", "3">>, 43),
                      Group(<<"5", "6">>, 56),
                      Group(chars(millis[i]), millis[i]))]

\* the sequences of time strings handed to parseTimeValue
TimeInputs ==
    LET hours == {Group(<<"0">>, 0), Group(<<"2", "3">>, 23),
                  Group(<<"0", "7">>, 7)}
        minutes == {Group(<<"0">>, 0), Group(<<"4", "3">>, 43)}
        seconds == {Group(<<"9">>, 9), Group(<<"5", "6">>, 56)}
        millis == {Group(<<"0", "9", "5">>, 95), Group(<<"0", "0", "0">>, 0),
                   Group(<<"1", "8", "1">>, 181), Group(<<"5">>, 5)}
        decimals ==
            {Decimal(<<"0", ".", "0", "1", "4", "1", "4", "4">>, 14144),
             Decimal(<<"5", ".", "1", "2", "3", "4", "5", "6">>, 5123456),
             Decimal(<<"1", "2">>, 12000000),
             Decimal(<<"0", ".", "5">>, 500000),
             Decimal(<<"-", "1", ".", "2", "5">>, -1250000),
             Decimal(<<"5", "6", ".", "0", "9", "5">>, 56095000)}
    IN  {<<Timestamp(h, m, s, ms)>> :
            h \in hours, m \in minutes, s \in seconds, ms \in millis}
        \cup {<<d>> : d \in decimals}
        \cup {TenTimestamps}

InitParse ==
    /\ \/ arg \in FileInputs
       \/ arg \in [kind : {"times"}, inputs : TimeInputs]
    /\ ret = NoRet
    /\ AppInit

CallSensorLoggerParse ==
    /\ arg.kind = "file"
    /\ arg.format = "sensorlogger"
    /\ ret' = [fn |-> "SensorLoggerParser.parse",
               out |-> SensorLoggerParse(FileText(arg), MaxRows, arg.chunkSize)]
    /\ UNCHANGED <<arg, appVars>>

CallPhysicsToolboxParse ==
    /\ arg.kind = "file"
    /\ arg.format = "physicstoolbox"
    /\ ret' = [fn |-> "PhysicsToolboxParser.parse",
               out |-> PhysicsToolboxParse(FileText(arg), MaxRows)]
    /\ UNCHANGED <<arg, appVars>>

\* parseTimeValue on each string, then the rate inferred from the times
CallParseTimeValue ==
    /\ arg.kind = "times"
    /\ LET times == [i \in 1..Len(arg.inputs) |-> parseTimeValue(arg.inputs[i].chars)]
           points == [i \in 1..Len(times) |-> DataPoint(times[i], Zero, Zero, One)]
       IN  ret' = [fn |-> "parseTimeValue", out |-> times,
                   rate |-> calculateActualSampleRate(points).actualSampleRate]
    /\ UNCHANGED <<arg, appVars>>

NextParse ==
    \/ CallSensorLoggerParse
    \/ CallPhysicsToolboxParse
    \/ CallParseTimeValue

SpecParse == InitParse /\ [][NextParse]_vars

\* the lines after the header that are data rows: those that are not blank
DataRowIndices(lineKinds) == {k \in 1..Len(lineKinds) : lineKinds[k] # "blank"}

\* the indices of the first n data rows
FirstDataRows(lineKinds, n) ==
    {k \in DataRowIndices(lineKinds) :
        Cardinality({j \in DataRowIndices(lineKinds) : j <= k}) <= n}

\* the times of the valid rows among the first MaxRows data rows, in file order
RECURSIVE ExpectedTimes(_, _, _)
ExpectedTimes(lineKinds, k, chosen) ==
    IF k > Len(lineKinds) THEN <<>>
    ELSE (IF k \in chosen /\ lineKinds[k] = "valid"
          THEN <<Q(2 * k + 1, 2)>> ELSE <<>>)
         \o ExpectedTimes(lineKinds, k + 1, chosen)

ParserCalled == ret.fn \in {"SensorLoggerParser.parse", "PhysicsToolboxParser.parse"}

\* C22: both parsers return at most MaxRows data points, and these are the
\* valid rows among the first MaxRows data rows of the file, in file order,
\* for every chunk size, line ending and with or without a final line ending.
C22_AtMostMaxRows ==
    (ParserCalled /\ ret.out.status = "return") =>
        /\ Len(ret.out.data) <= MaxRows
        /\ Len(ret.out.rows) <= MaxRows
        /\ [i \in 1..Len(ret.out.data) |-> ret.out.data[i].time] =
              ExpectedTimes(arg.lines, 1, FirstDataRows(arg.lines, MaxRows))
        /\ \A i \in 1..Len(ret.out.data) :
              /\ ret.out.data[i].ax = One
              /\ ret.out.data[i].ay = Q(-2, 1)
              /\ ret.out.data[i].az = Q(3, 1)

\* a file with more valid rows than the limit and no final line ending, read
\* in chunks that split its lines
C22_Witness ==
    /\ ret.fn = "SensorLoggerParser.parse"
    /\ ret.out.status = "return"
    /\ Len(ret.out.data) = MaxRows
    /\ Cardinality({k \in 1..Len(arg.lines) : arg.lines[k] = "valid"}) > MaxRows
    /\ ~arg.trailing
    /\ arg.sep = <<CR, LF>>
    /\ arg.chunkSize = 2

-----------------------------------------------------------------------------
(* The App component: React state, event handlers, the awaited parse and   *)
(* the deferred recalculation.  React re-renders between any two steps, so *)
(* a handler sees the state of the latest render; memoized callbacks and   *)
(* pending callbacks see the state of the render that created them.        *)

Files == {"a.csv", "b.zip", "flat.csv", "bad.zip", "notes.txt"}

\* createParser: only .csv and .zip names get a parser
createParserThrows(file) == file \notin {"a.csv", "b.zip", "flat.csv", "bad.zip"}

\* what parser.parse(file) resolves to (ok) or rejects with
ParseOutcome(file) ==
    CASE file = "a.csv" ->
            [ok |-> TRUE, message |-> "", startTime |-> Q(5000, 1),
             data |-> << DataPoint(Q(10, 1), Q(1, 1), Q(0, 1), Q(3, 1)),
                         DataPoint(Q(21, 2), Q(2, 1), Q(0, 1), Q(3, 1)),
                         DataPoint(Q(11, 1), Q(1, 1), Q(1, 1), Q(4, 1)) >>]
      [] file = "b.zip" ->
            [ok |-> TRUE, message |-> "", startTime |-> Q(9000, 1),
             data |-> << DataPoint(Q(0, 1), Q(0, 1), Q(1, 1), Q(2, 1)),
                         DataPoint(Q(1, 1), Q(0, 1), Q(2, 1), Q(2, 1)),
                         DataPoint(Q(2, 1), Q(1, 1), Q(1, 1), Q(2, 1)),
                         DataPoint(Q(3, 1), Q(1, 1), Q(2, 1), Q(1, 1)) >>]
      [] file = "flat.csv" ->
            [ok |-> TRUE, message |-> "", startTime |-> Q(7000, 1),
             data |-> << DataPoint(Q(4, 1), Q(1, 1), Q(1, 1), Q(1, 1)),
                         DataPoint(Q(4, 1), Q(2, 1), Q(2, 1), Q(2, 1)) >>]
      [] file = "bad.zip" ->
            [ok |-> FALSE, message |-> "Missing Metadata.csv in ZIP file",
             startTime |-> NaN, data |-> <<>>]
      [] OTHER ->
            [ok |-> FALSE,
             message |-> "Unsupported file format. Please upload a .csv or .zip file.",
             startTime |-> NaN, data |-> <<>>]

FFTMessage == "FFT size must be a power of two and bigger than 1"

\* the closure state of the calculateMetrics created by the current render
CurrentEnv == [selectedMetrics |-> selectedMetrics, snapToNow |-> snapToNow,
               maxVisibleWindows |-> maxVisibleWindows]

\* useCallback(parseFile, [windowSizeSeconds, overlapPercent]): the memoized
\* parseFile, and with it the calculateMetrics it closes over, is replaced
\* only by a render in which one of the two settings has changed
RenderParseFile(newWindowSize, newOverlap, env) ==
    parseFileEnv' = IF newWindowSize # windowSizeSeconds
                       \/ newOverlap # overlapPercent
                    THEN env
                    ELSE parseFileEnv

\* the state updates at the end of calculateMetrics, for the result res of a
\* call made through a closure with state env
SetMetricData(res, env) ==
    /\ metricData' = IF res.status = "set" THEN res.results ELSE metricData
    /\ scrollPosition' =
          IF res.status = "set" /\ env.snapToNow
          THEN MaxInt(0, Len(res.results) - env.maxVisibleWindows)
          ELSE scrollPosition

Loaded_NoRateCheck == Len(data) > 0 /\ ~metadata.null

Loaded == Len(data) > 0 /\ Gt(actualSampleRate, Zero) /\ ~metadata.null

Did(op, status) == [op |-> op, file |-> "", newMetrics |-> {}, status |-> status]

\* parseFile for p.file, started while p.selectedMetrics was selected, ended
DidParse(p, status) ==
    [op |-> "parseFile", file |-> p.file, newMetrics |-> p.selectedMetrics,
     status |-> status]

\* one more user event is handled
UserEvent == events < MaxEvents /\ events' = events + 1

\* a catch block that leaves the metric records in place
ParseFileCatch_KeepsMetricData(message) ==
    /\ error' = message
    /\ metadata' = NoMetadata
    /\ data' = <<>>
    /\ metricData' = metricData

\* the catch block of parseFile
ParseFileCatch(message) ==
    /\ error' = message
    /\ metadata' = NoMetadata
    /\ data' = <<>>
    /\ metricData' = <<>>

\* handleFileUpload(file): parseFile runs up to its await
handleFileUpload(file) ==
    /\ UserEvent
    /\ IF createParserThrows(file)
       THEN /\ ParseFileCatch(ParseOutcome(file).message)
            /\ UNCHANGED parses
            /\ last' = Did("handleFileUpload", "throw")
       ELSE /\ error' = ""
            /\ parses' = Append(parses,
                   [file |-> file, windowSizeSeconds |-> windowSizeSeconds,
                    overlapPercent |-> overlapPercent, env |-> parseFileEnv,
                    selectedMetrics |-> selectedMetrics])
            /\ last' = Did("handleFileUpload", "none")
            /\ UNCHANGED <<metadata, data, metricData>>
    /\ selectedFile' = file
    /\ UNCHANGED <<windowSizeSeconds, overlapPercent, actualSampleRate,
                   samplesPerMinute, maxVisibleWindows, scrollPosition,
                   snapToNow, selectedMetrics, parseFileEnv, timers, fnVars>>

RemoveAt(s, i) == [j \in 1..(Len(s) - 1) |-> IF j < i THEN s[j] ELSE s[j + 1]]

\* parser.parse(file) settles and parseFile continues after its await
parseFileResume(i) ==
    /\ i \in 1..Len(parses)
    /\ LET p == parses[i]
           parsed == ParseOutcome(p.file)
           rate == calculateActualSampleRate(parsed.data)
           res == calculateMetrics(rate.normalizedData, p.windowSizeSeconds,
                                   p.overlapPercent, rate.actualSampleRate,
                                   parsed.startTime, p.env.selectedMetrics)
       IN  /\ parses' = RemoveAt(parses, i)
           /\ IF ~parsed.ok
              THEN /\ ParseFileCatch(parsed.message)
                   /\ last' = DidParse(p, "reject")
                   /\ UNCHANGED <<actualSampleRate, samplesPerMinute,
                                  scrollPosition>>
              ELSE IF res.status = "throw"
              THEN /\ ParseFileCatch(FFTMessage)
                   /\ actualSampleRate' = rate.actualSampleRate
                   /\ samplesPerMinute' = analyzeSamplesPerMinute(rate.normalizedData)
                   /\ last' = DidParse(p, "throw")
                   /\ UNCHANGED scrollPosition
              ELSE /\ metadata' = Metadata(parsed.startTime)
                   /\ data' = rate.normalizedData
                   /\ actualSampleRate' = rate.actualSampleRate
                   /\ samplesPerMinute' = analyzeSamplesPerMinute(rate.normalizedData)
                   /\ SetMetricData(res, p.env)
                   /\ last' = DidParse(p, res.status)
                   /\ UNCHANGED error
    /\ UNCHANGED <<windowSizeSeconds, overlapPercent, maxVisibleWindows,
                   snapToNow, selectedMetrics, parseFileEnv, timers, events,
                   selectedFile, fnVars>>

handleWindowSizeChange(newWindowSize) ==
    /\ UserEvent
    /\ windowSizeSeconds' = newWindowSize
    /\ LET res == IF Loaded
                  THEN calculateMetrics(data, newWindowSize, overlapPercent,
                                        actualSampleRate, metadata.startTime,
                                        selectedMetrics)
                  ELSE [status |-> "none", windows |-> <<>>, results |-> <<>>]
       IN  /\ SetMetricData(res, CurrentEnv)
           /\ last' = Did("handleWindowSizeChange", res.status)
    /\ RenderParseFile(newWindowSize, overlapPercent, CurrentEnv)
    /\ UNCHANGED <<metadata, data, overlapPercent, error, actualSampleRate,
                   maxVisibleWindows, snapToNow, selectedMetrics, parses,
                   timers, fnVars>>
    /\ UNCHANGED <<samplesPerMinute, selectedFile>>

handleOverlapChange(newOverlap) ==
    /\ UserEvent
    /\ overlapPercent' = newOverlap
    /\ LET res == IF Loaded
                  THEN calculateMetrics(data, windowSizeSeconds, newOverlap,
                                        actualSampleRate, metadata.startTime,
                                        selectedMetrics)
                  ELSE [status |-> "none", windows |-> <<>>, results |-> <<>>]
       IN  /\ SetMetricData(res, CurrentEnv)
           /\ last' = Did("handleOverlapChange", res.status)
    /\ RenderParseFile(windowSizeSeconds, newOverlap, CurrentEnv)
    /\ UNCHANGED <<metadata, data, windowSizeSeconds, error, actualSampleRate,
                   maxVisibleWindows, snapToNow, selectedMetrics, parses,
                   timers, fnVars>>
    /\ UNCHANGED <<samplesPerMinute, selectedFile>>

\* the set handleMetricToggle passes to setSelectedMetrics
ToggledMetrics(metric) ==
    IF metric \in selectedMetrics
    THEN selectedMetrics \ {metric}
    ELSE selectedMetrics \cup {metric}

\* handleMetricToggle(metric): the callback handed to setTimeout closes over
\* this render's data, settings and calculateMetrics
handleMetricToggle(metric) ==
    /\ UserEvent
    /\ selectedMetrics' = ToggledMetrics(metric)
    /\ timers' = IF Loaded
                 THEN Append(timers,
                        [data |-> data, windowSizeSeconds |-> windowSizeSeconds,
                         overlapPercent |-> overlapPercent,
                         actualSampleRate |-> actualSampleRate,
                         startTime |-> metadata.startTime,
                         env |-> CurrentEnv,
                         newMetrics |-> ToggledMetrics(metric)])
                 ELSE timers
    /\ last' = Did("handleMetricToggle", "none")
    /\ UNCHANGED <<metadata, data, metricData, windowSizeSeconds,
                   overlapPercent, error, actualSampleRate, maxVisibleWindows,
                   scrollPosition, snapToNow, parseFileEnv, parses, fnVars>>
    /\ UNCHANGED <<samplesPerMinute, selectedFile>>

\* the oldest pending setTimeout callback runs
TimerCallback ==
    /\ Len(timers) > 0
    /\ LET t == Head(timers)
           res == calculateMetrics(t.data, t.windowSizeSeconds, t.overlapPercent,
                                   t.actualSampleRate, t.startTime,
                                   t.env.selectedMetrics)
       IN  /\ SetMetricData(res, t.env)
           /\ last' = [op |-> "timer", file |-> "", newMetrics |-> t.newMetrics,
                       status |-> res.status]
    /\ timers' = Tail(timers)
    /\ UNCHANGED <<metadata, data, windowSizeSeconds, overlapPercent, error,
                   actualSampleRate, maxVisibleWindows, snapToNow,
                   selectedMetrics, parseFileEnv, parses, events, fnVars>>
    /\ UNCHANGED <<samplesPerMinute, selectedFile>>

handleSnapToNow ==
    /\ UserEvent
    /\ snapToNow' = TRUE
    /\ scrollPosition' = MaxInt(0, Len(metricData) - maxVisibleWindows)
    /\ last' = Did("handleSnapToNow", "none")
    /\ UNCHANGED <<metadata, data, metricData, windowSizeSeconds,
                   overlapPercent, error, actualSampleRate, maxVisibleWindows,
                   selectedMetrics, parseFileEnv, parses, timers, fnVars>>
    /\ UNCHANGED <<samplesPerMinute, selectedFile>>

\* onClick={() => setSnapToNow(!snapToNow)}
ToggleSnapToNow ==
    /\ UserEvent
    /\ snapToNow' = ~snapToNow
    /\ last' = Did("setSnapToNow", "none")
    /\ UNCHANGED <<metadata, data, metricData, windowSizeSeconds,
                   overlapPercent, error, actualSampleRate, maxVisibleWindows,
                   scrollPosition, selectedMetrics, parseFileEnv, parses,
                   timers, fnVars>>
    /\ UNCHANGED <<samplesPerMinute, selectedFile>>

\* onChange={(e) => setMaxVisibleWindows(parseInt(e.target.value))}
ChangeMaxVisibleWindows(v) ==
    /\ UserEvent
    /\ maxVisibleWindows' = v
    /\ last' = Did("setMaxVisibleWindows", "none")
    /\ UNCHANGED <<metadata, data, metricData, windowSizeSeconds,
                   overlapPercent, error, actualSampleRate, scrollPosition,
                   snapToNow, selectedMetrics, parseFileEnv, parses, timers,
                   fnVars>>
    /\ UNCHANGED <<samplesPerMinute, selectedFile>>

\* the scroll slider: setScrollPosition(value); setSnapToNow(false)
ScrollTo(pos) ==
    /\ UserEvent
    /\ pos \in 0..MaxInt(0, Len(metricData) - maxVisibleWindows)
    /\ scrollPosition' = pos
    /\ snapToNow' = FALSE
    /\ last' = Did("setScrollPosition", "none")
    /\ UNCHANGED <<metadata, data, metricData, windowSizeSeconds,
                   overlapPercent, error, actualSampleRate, maxVisibleWindows,
                   selectedMetrics, parseFileEnv, parses, timers, fnVars>>
    /\ UNCHANGED <<samplesPerMinute, selectedFile>>

\* values the user enters in the settings inputs
WindowSizeInputs == {One, Q(2, 1), NaN}
OverlapInputs == {Q(50, 1), Zero}
ToggleInputs == {"rms_x", "band_0_1"}
MaxVisibleInputs == {100, 1}

Init ==
    /\ arg = [dataPoints |-> <<>>]
    /\ ret = NoRet
    /\ AppInit

Next ==
    \/ \E file \in Files : handleFileUpload(file)
    \/ \E i \in 1..MaxEvents : parseFileResume(i)
    \/ \E w \in WindowSizeInputs : handleWindowSizeChange(w)
    \/ \E o \in OverlapInputs : handleOverlapChange(o)
    \/ \E m \in ToggleInputs : handleMetricToggle(m)
    \/ TimerCallback
    \/ handleSnapToNow
    \/ ToggleSnapToNow
    \/ \E v \in MaxVisibleInputs : ChangeMaxVisibleWindows(v)
    \/ \E pos \in 0..MaxSeriesLen : ScrollTo(pos)

Spec == Init /\ [][Next]_vars

\* C10: once the deferred recalculation of a handleMetricToggle has run on a
\* loaded series, every record in metricData carries values for exactly the
\* metrics of the set selected by that toggle.
C10_ToggleUsesNewMetrics ==
    (last.op = "timer") =>
        \A k \in 1..Len(metricData) :
            DOMAIN metricData[k].values = last.newMetrics

\* C11: after parseFile has completed with rate > 0 and set metricData, every
\* record carries a value for exactly the metrics of the selected set (the
\* set selected when the load was started, or the one selected when it
\* completed).
C11_LoadUsesSelectedMetrics ==
    (last.op = "parseFile" /\ last.status = "set" /\ Gt(actualSampleRate, Zero)) =>
        \A k \in 1..Len(metricData) :
            DOMAIN metricData[k].values \in {last.newMetrics, selectedMetrics}

\* the configuration held by the App state, in plain integers
StateWindowSize ==
    LET x == Mul(windowSizeSeconds, actualSampleRate)
        r == (2 * x.n + x.d) \div (2 * x.d)
    IN  IF r < 1 THEN 1 ELSE r
StateOverlap == (StateWindowSize * overlapPercent.n) \div (100 * overlapPercent.d)
StateStep == IF StateWindowSize - StateOverlap < 1 THEN 1
             ELSE StateWindowSize - StateOverlap

\* C12: after handleWindowSizeChange(w) or handleOverlapChange(o) on a loaded
\* series with rate > 0, metricData is the full re-windowing of data under
\* the new value, the other setting and actualSampleRate: one record per
\* start 0, step, 2*step, ... < n, each computed over its window, and
\* nothing else.
C12_SettingChangeRewindows ==
    (/\ last.op \in {"handleWindowSizeChange", "handleOverlapChange"}
     /\ Loaded
     /\ Gt(windowSizeSeconds, Zero)) =>
        /\ Len(metricData) = (Len(data) + StateStep - 1) \div StateStep
        /\ \A k \in 1..Len(metricData) :
              LET lo == (k - 1) * StateStep
                  hi == MinInt(lo + StateWindowSize, Len(data))
                  window == SubSeq(data, lo + 1, hi)
              IN  /\ metricData[k].time = data[hi].time
                  /\ metricData[k].values =
                        [m \in selectedMetrics |->
                            MetricValue(m, window, actualSampleRate)]

\* the rate parseFile infers for a file
InferredRate(file) ==
    calculateActualSampleRate(ParseOutcome(file).data).actualSampleRate

\* C19: when the inferred rate is 0 nothing is windowed or computed: a
\* parseFile that infers rate 0 stores 0 in actualSampleRate and its
\* calculateMetrics call returns without setting any record; while
\* actualSampleRate is 0 the setting handlers do not call calculateMetrics
\* and handleMetricToggle schedules no recalculation.
C19_ZeroRateComputesNothing ==
    [][/\ (/\ last'.op = "parseFile"
           /\ ParseOutcome(last'.file).ok
           /\ InferredRate(last'.file) = Zero) =>
              /\ last'.status = "return"
              /\ metricData' = metricData
              /\ actualSampleRate' = Zero
       /\ (/\ last'.op \in {"handleWindowSizeChange", "handleOverlapChange"}
           /\ actualSampleRate = Zero) =>
              /\ last'.status = "none"
              /\ metricData' = metricData
       /\ (last'.op = "handleMetricToggle" /\ actualSampleRate = Zero) =>
              timers' = timers
      ]_vars

C19_Witness ==
    /\ last.op = "handleWindowSizeChange"
    /\ last.status = "none"
    /\ actualSampleRate = Zero
    /\ Len(data) = 2
    /\ ~metadata.null
    /\ metricData = <<>>

\* visibleData: the slice of metricData shown by the charts
visibleData ==
    LET startIdx == MaxInt(0, MinInt(scrollPosition,
                                     Len(metricData) - maxVisibleWindows))
        endIdx == MinInt(startIdx + maxVisibleWindows, Len(metricData))
    IN  Slice(metricData, startIdx, endIdx)

\* a recomputation has just stored its records while auto-scroll is on, or
\* the user has just invoked Snap to Now
SnapApplies ==
    \/ /\ snapToNow
       /\ last.op \in {"parseFile", "timer", "handleWindowSizeChange",
                       "handleOverlapChange"}
       /\ last.status = "set"
    \/ last.op = "handleSnapToNow"

\* C24: when auto-scroll is on and a recomputation has completed, or the
\* user has invoked Snap to Now, scrollPosition is
\* max(0, metricData.length - maxVisibleWindows) for the current
\* maxVisibleWindows and visibleData ends at the last record of metricData.
C24_SnapFollowsLatest ==
    SnapApplies =>
        /\ scrollPosition = MaxInt(0, Len(metricData) - maxVisibleWindows)
        /\ metricData # <<>> =>
               /\ visibleData # <<>>
               /\ visibleData[Len(visibleData)] = metricData[Len(metricData)]

\* C26: a failed parse (createParser throws, or parser.parse rejects) sets
\* the error message and clears metadata, data and metricData, and leaves
\* actualSampleRate and samplesPerMinute as they were.
C26_ParseFailureClears ==
    [][(\/ (last'.op = "handleFileUpload" /\ last'.status = "throw")
        \/ (last'.op = "parseFile" /\ last'.status = "reject")) =>
            /\ error' # ""
            /\ error' = ParseOutcome(IF last'.op = "parseFile" THEN last'.file
                                     ELSE selectedFile').message
            /\ metadata' = NoMetadata
            /\ data' = <<>>
            /\ metricData' = <<>>
            /\ actualSampleRate' = actualSampleRate
            /\ samplesPerMinute' = samplesPerMinute
      ]_vars

\* a parse has just failed after another file had been loaded and analysed
C26_Witness ==
    /\ last.op = "parseFile"
    /\ last.status = "reject"
    /\ error = "Missing Metadata.csv in ZIP file"
    /\ metadata.null
    /\ data = <<>>
    /\ metricData = <<>>
    /\ Gt(actualSampleRate, Zero)
    /\ Len(samplesPerMinute) > 0

\* C29: once every started parse has completed, metadata, data,
\* actualSampleRate and samplesPerMinute are those of the file selected
\* last, whatever the order in which the parses finished.
C29_LastSelectedFileWins ==
    (/\ parses = <<>>
     /\ last.op = "parseFile"
     /\ last.status \in {"set", "return"}
     /\ ParseOutcome(selectedFile).ok) =>
        LET parsed == ParseOutcome(selectedFile)
            rate == calculateActualSampleRate(parsed.data)
        IN  /\ metadata = Metadata(parsed.startTime)
            /\ data = rate.normalizedData
            /\ actualSampleRate = rate.actualSampleRate
            /\ samplesPerMinute = analyzeSamplesPerMinute(rate.normalizedData)

\* C30: with no parse and no timer pending, every record of a non-empty
\* metricData was computed from the series in data: its time is the time of
\* a sample of data and its absoluteTime is that time after the startTime of
\* the loaded metadata.
C30_RecordsComeFromData ==
    (parses = <<>> /\ timers = <<>> /\ metricData # <<>>) =>
        /\ ~metadata.null
        /\ \A k \in 1..Len(metricData) :
              /\ \E i \in 1..Len(data) : data[i].time = metricData[k].time
              /\ metricData[k].absoluteTime =
                     NewDate(Add(metadata.startTime,
                                 Mul(metricData[k].time, Q(1000, 1))))

====
